---------------------------- MODULE Spec2Model ----------------------------
(***************************************************************************)
(* A model of the Nano Creatures SDK client: the NanoCreaturesSDK class of *)
(* src/index.ts, its compiled copy and its credential-callback variant in  *)
(* src/dist/index.js, and the standalone createCreature of                 *)
(* src/dist/creatures.js.                                                  *)
(*                                                                         *)
(* Every operation is an async function.  It runs from the call to its     *)
(* await of fetch (it builds and sends the request); when the fetch        *)
(* promise resolves with a response it runs on to its await of the body    *)
(* (response.text() or response.json()); when the body has arrived it      *)
(* decodes it and returns or throws.  A rejected fetch and a body that     *)
(* fails on the way end the invocation where it is suspended.  Only        *)
(* deleteCreature is done with a 2xx response without reading its body.    *)
(* The diagnostic testEndpoint of src/dist/index.js does all this twice.   *)
(*                                                                         *)
(* A method has no state but its own locals, and nothing keeps the caller  *)
(* from calling while earlier invocations are suspended: the client has    *)
(* any number of invocations in flight, here up to MaxInFlight, and their  *)
(* steps interleave freely.                                                *)
(*                                                                         *)
(* JavaScript values are tagged records; strings are TLA+ strings, so that *)
(* template literals are concatenations and "the message contains the raw  *)
(* body" is a substring test.                                              *)
(***************************************************************************)
EXTENDS Integers, Sequences, FiniteSets, TLC

VARIABLES config, copy, initLog, given, call, wire, result

vars == <<config, copy, initLog, given, call, wire, result>>

\* The client object and what surrounds it.
client == <<config, copy, initLog, given>>

(***************************************************************************)
(* Bounds of the model.                                                    *)
(***************************************************************************)
MaxFileSize == 1
\* The number of invocations that may be in flight at a time.
MaxInFlight == 2

(***************************************************************************)
(* JavaScript values.                                                      *)
(***************************************************************************)
Undefined == [t |-> "undefined"]
Str(s) == [t |-> "string", s |-> s]
Num(n) == [t |-> "number", n |-> n]
Bool(b) == [t |-> "boolean", b |-> b]
Arr(a) == [t |-> "array", a |-> a]
\* An object is the sequence of its own properties <<key, value>>, in
\* insertion order (the order JSON.stringify writes them in).
Obj(f) == [t |-> "object", f |-> f]
\* A File handed to createMemorySource: an object that is not JSON data.
FileOf(name) == [t |-> "file", name |-> name]

Keys(o) == {o.f[i][1] : i \in 1..Len(o.f)}

\* o.key: undefined when o is not an object or has no such property.
Get(o, key) ==
    IF o.t = "object" /\ key \in Keys(o)
    THEN (o.f[CHOOSE i \in 1..Len(o.f) : o.f[i][1] = key])[2]
    ELSE Undefined

\* Reading a property of undefined or null throws a TypeError.
Nullish(v) == v.t \in {"undefined", "null"}

\* ToBoolean, as used by `x || y`, `x ? a : b` and `if (x)`.
Truthy(v) ==
    CASE v.t = "undefined" -> FALSE
      [] v.t = "null" -> FALSE
      [] v.t = "string" -> v.s # ""
      [] v.t = "number" -> v.n # 0
      [] v.t = "boolean" -> v.b
      [] OTHER -> TRUE

\* x || y
OrElse(x, y) == IF Truthy(x) THEN x ELSE y

\* The string a template literal, toString(), FormData.append or
\* `new Error(v)` makes of a value.  An array is the join of its items by
\* commas, an undefined or null item giving the empty string.
RECURSIVE ToStr(_)
RECURSIVE JoinItems(_, _)

JoinItems(a, first) ==
    IF a = <<>> THEN ""
    ELSE (IF first THEN "" ELSE ",")
         \o (IF Nullish(a[1]) THEN "" ELSE ToStr(a[1]))
         \o JoinItems(Tail(a), FALSE)

ToStr(v) ==
    CASE v.t = "string" -> v.s
      [] v.t = "number" -> ToString(v.n)
      [] v.t = "undefined" -> "undefined"
      [] v.t = "null" -> "null"
      [] v.t = "boolean" -> (IF v.b THEN "true" ELSE "false")
      [] v.t = "array" -> JoinItems(v.a, TRUE)
      [] v.t = "file" -> "[object File]"
      [] OTHER -> "[object Object]"

\* The message of `new Error(v)`: empty when v is undefined.
ErrorMessage(v) == IF v.t = "undefined" THEN "" ELSE ToStr(v)

\* { ...o, key: v }: the property keeps its place if o has it, else it is
\* added last.
WithProp(o, key, v) ==
    IF key \in Keys(o)
    THEN Obj([i \in 1..Len(o.f) |->
                 IF o.f[i][1] = key THEN <<key, v>> ELSE o.f[i]])
    ELSE Obj(Append(o.f, <<key, v>>))

\* s contains sub as a substring.
Contains(s, sub) ==
    \E i \in 1..(Len(s) - Len(sub) + 1) : SubSeq(s, i, i + Len(sub) - 1) = sub

\* String.prototype.replace with a string pattern: the first occurrence of
\* the pattern is replaced, a string without it is left as it is.
Replace(s, pattern, by) ==
    LET at == {i \in 1..(Len(s) - Len(pattern) + 1) :
                   SubSeq(s, i, i + Len(pattern) - 1) = pattern}
    IN IF at = {} THEN s
       ELSE LET i == CHOOSE i \in at : \A j \in at : i <= j
            IN SubSeq(s, 1, i - 1) \o by \o SubSeq(s, i + Len(pattern), Len(s))

StartsWith(s, p) == Len(s) >= Len(p) /\ SubSeq(s, 1, Len(p)) = p

(***************************************************************************)
(* JSON.stringify, for the values of the model (its strings hold no        *)
(* character that needs escaping).  Properties whose value is undefined    *)
(* are left out.                                                           *)
(***************************************************************************)
RECURSIVE Stringify(_)
RECURSIVE StringifyProps(_, _)
RECURSIVE StringifyItems(_, _)

StringifyProps(f, first) ==
    IF f = <<>> THEN ""
    ELSE IF f[1][2].t = "undefined"
         THEN StringifyProps(Tail(f), first)
         ELSE (IF first THEN "" ELSE ",")
              \o "\"" \o f[1][1] \o "\":" \o Stringify(f[1][2])
              \o StringifyProps(Tail(f), FALSE)

StringifyItems(a, first) ==
    IF a = <<>> THEN ""
    ELSE (IF first THEN "" ELSE ",") \o Stringify(a[1])
         \o StringifyItems(Tail(a), FALSE)

Stringify(v) ==
    CASE v.t = "string" -> "\"" \o v.s \o "\""
      [] v.t = "number" -> ToString(v.n)
      [] v.t = "null" -> "null"
      [] v.t = "boolean" -> (IF v.b THEN "true" ELSE "false")
      [] v.t = "array" -> "[" \o StringifyItems(v.a, TRUE) \o "]"
      [] v.t = "object" -> "{" \o StringifyProps(v.f, TRUE) \o "}"
      [] OTHER -> "{}"

(***************************************************************************)
(* The inputs of the model: what the caller passes and what the server     *)
(* answers.                                                                *)
(***************************************************************************)
ServerToken == "srv-token"
ServerUser == Obj(<< <<"id", Str("u1")>>, <<"email", Str("a@b.c")>> >>)

\* The JSON documents the server may answer with.
JsonDocs ==
    { Obj(<< <<"message", Str("Invalid credentials")>> >>),
      Obj(<< <<"message", Str("")>> >>),
      Obj(<<>>),
      Obj(<< <<"error", Str("Name taken")>> >>),
      [t |-> "null"],
      Obj(<< <<"token", Str(ServerToken)>>, <<"user", ServerUser>> >>),
      Obj(<< <<"user", ServerUser>> >>),
      Obj(<< <<"token", Str(ServerToken)>> >>),
      Obj(<< <<"creatures", Arr(<<>>)>> >>) }

\* Bodies that are not JSON: an empty body and an error page.
ErrorPage == "<html>Bad Gateway</html>"

JsonTexts == {Stringify(v) : v \in JsonDocs}
BodyTexts == JsonTexts \cup {"", ErrorPage}

Statuses == {200, 500}

\* How the transport of a request goes.  The fetch promise is rejected,
\* with an Error (the transport failed) or with a value that is no Error;
\* or it resolves with a response, whose status is known then, and the body
\* follows: it arrives as a text, or the read of it fails, with an Error
\* (the connection ended) or with a value that is no Error.
TransportError == [name |-> "TypeError", message |-> "fetch failed"]
BodyError == [name |-> "TypeError", message |-> "terminated"]
Rejections == [kind : {"rejectError", "rejectOther"}, status : {0}, text : {""}]

\* response.ok
Ok(r) == r.status >= 200 /\ r.status <= 299

(***************************************************************************)
(* JSON.parse, the inverse of JSON.stringify on the server's documents; a  *)
(* text that is no document is a syntax error.                             *)
(***************************************************************************)
IsJson(text) == text \in JsonTexts

ParseTable == [text \in JsonTexts |-> CHOOSE v \in JsonDocs : Stringify(v) = text]

JsonParse(text) == ParseTable[text]

\* The message of the SyntaxError the engine throws for a text that is not
\* JSON and whose first character is the offending one.  It is engine
\* defined: older V8 names the token and its position; newer V8 quotes the
\* text, cut to ten characters when the text has twenty-one or more.
SyntaxErrorMessages(text) ==
    IF text = "" THEN {"Unexpected end of JSON input"}
    ELSE { "Unexpected token " \o SubSeq(text, 1, 1) \o " in JSON at position 0",
           "Unexpected token '" \o SubSeq(text, 1, 1) \o "', \""
             \o (IF Len(text) >= 21
                 THEN SubSeq(text, 1, 10) \o "\"..."
                 ELSE text \o "\"")
             \o " is not valid JSON" }

\* The messages the engine may give the SyntaxError of parsing text; a text
\* that parses has none.
EngineMessages(text) == IF IsJson(text) THEN {""} ELSE SyntaxErrorMessages(text)

(***************************************************************************)
(* How an invocation ends.                                                 *)
(***************************************************************************)
Returned(v) == [kind |-> "returned", value |-> v, name |-> "", message |-> ""]
Threw(name, message) ==
    [kind |-> "threw", value |-> Undefined, name |-> name, message |-> message]

\* The TypeError of reading property p of undefined or null.
ReadOfNullish(v, p) ==
    Threw("TypeError",
          "Cannot read properties of " \o ToStr(v) \o " (reading '" \o p \o "')")

(***************************************************************************)
(* Construction.                                                           *)
(***************************************************************************)
DEFAULT_BASE_URL == "https://nanocreatures.app"

\* The constructor: each option falls back to its default when falsy.
Construct(input) ==
    [baseUrl |-> ToStr(OrElse(input.baseUrl, Str(DEFAULT_BASE_URL))),
     apiKey |-> ToStr(OrElse(input.apiKey, Str("")))]

\* console.log('SDK initialized with config:', this.config)
ConstructLog(cfg) ==
    << <<"SDK initialized with config:",
         "{ baseUrl: '" \o cfg.baseUrl \o "', apiKey: '" \o cfg.apiKey \o "' }">> >>

\* The base URL of the standalone createCreature, imported from a module
\* that is not part of the sources.
BASE_URL == "${BASE_URL}"

(***************************************************************************)
(* Requests.                                                               *)
(***************************************************************************)
NoHeaders == [h \in {} |-> ""]
ContentTypeJson == "Content-Type" :> "application/json"
Bearer(credential) == "Authorization" :> ("Bearer " \o credential)

NoBody == [kind |-> "none", text |-> "", form |-> <<>>]
JsonBody(v) == [kind |-> "json", text |-> Stringify(v), form |-> <<>>]
FormBody(entries) == [kind |-> "form", text |-> "", form |-> entries]

Request(method, url, headers, body) ==
    [method |-> method, url |-> url, headers |-> headers, body |-> body,
     agent |-> "default"]

\* A variant of ApiKeyHeader that attaches the header whatever the apiKey.
ApiKeyHeaderAlways(cfg) == Bearer(cfg.apiKey)

\* ...(this.config.apiKey ? { Authorization: `Bearer ${apiKey}` } : {})
ApiKeyHeader(cfg) == IF cfg.apiKey # "" THEN Bearer(cfg.apiKey) ELSE NoHeaders

signUpRequest(cfg, options) ==
    Request("POST", cfg.baseUrl \o "/api/auth/signup",
            ContentTypeJson @@ ApiKeyHeader(cfg), JsonBody(options))

\* signIn of src/index.ts and of the compiled copy.
signInRequest(cfg, options) ==
    Request("POST", cfg.baseUrl \o "/api/auth/signin",
            ContentTypeJson @@ ApiKeyHeader(cfg), JsonBody(options))

\* The private fetch of the credential-callback variant: requests to a URL
\* that names localhost go through the client's own HTTPS agent.
privateFetch(req) ==
    [req EXCEPT !.agent = IF Contains(req.url, "localhost")
                          THEN "httpsAgent" ELSE "default"]

\* signIn of the credential-callback variant.
signInCallbackRequest(cfg, options) ==
    privateFetch(
        Request("POST", cfg.baseUrl \o "/api/auth/callback/credentials",
                ContentTypeJson,
                JsonBody(Obj(<< <<"email", Get(options, "email")>>,
                                <<"password", Get(options, "password")>>,
                                <<"redirect", Bool(FALSE)>>,
                                <<"json", Bool(TRUE)>> >>))))

getCreaturesRequest(cfg, token) ==
    Request("GET", cfg.baseUrl \o "/api/creatures",
            ContentTypeJson @@ Bearer(token), NoBody)

createCreatureRequest(cfg, token, params) ==
    Request("POST", cfg.baseUrl \o "/api/creatures",
            ContentTypeJson @@ Bearer(token), JsonBody(params))

\* A variant of editCreatureRequest that addresses the collection and
\* leaves the id out of the path.
editCreatureRequestOnCollection(cfg, token, id, params) ==
    Request("PUT", cfg.baseUrl \o "/api/creatures",
            ContentTypeJson @@ Bearer(token), JsonBody(params))

editCreatureRequest(cfg, token, id, params) ==
    Request("PUT", cfg.baseUrl \o "/api/creatures/" \o id,
            ContentTypeJson @@ Bearer(token), JsonBody(params))

deleteCreatureRequest(cfg, token, id) ==
    Request("DELETE", cfg.baseUrl \o "/api/creatures/" \o id,
            Bearer(token), NoBody)

\* A variant of memorySourceForm that appends every truthy field, whatever
\* the type.
memorySourceFormAnyType(params) ==
    LET base == << <<"name", ToStr(Get(params, "name"))>>,
                   <<"type", ToStr(Get(params, "type"))>> >>
        field(k) == IF Truthy(Get(params, k))
                    THEN << <<k, ToStr(Get(params, k))>> >> ELSE <<>>
    IN base \o field("content") \o field("fileUrl") \o field("fileName")
       \o field("fileSize")

\* A variant of memorySourceForm that appends every field of the type the
\* caller has set, a falsy one too.
memorySourceFormKeepingFalsy(params) ==
    LET type == Get(params, "type")
        base == << <<"name", ToStr(Get(params, "name"))>>,
                   <<"type", ToStr(type)>> >>
        field(k) == IF Get(params, k) # Undefined
                    THEN << <<k, ToStr(Get(params, k))>> >> ELSE <<>>
    IN IF type = Str("STATIC_TEXT") /\ Truthy(Get(params, "content"))
       THEN base \o << <<"content", ToStr(Get(params, "content"))>> >>
       ELSE IF type = Str("STATIC_TEXT")
            THEN base \o field("content")
            ELSE IF type = Str("DOCUMENT")
                 THEN base \o field("fileUrl") \o field("fileName")
                      \o field("fileSize")
                 ELSE base

\* The FormData of createMemorySource: name and type always, then the
\* fields of the type, each only if truthy.
memorySourceForm(params) ==
    LET type == Get(params, "type")
        base == << <<"name", ToStr(Get(params, "name"))>>,
                   <<"type", ToStr(type)>> >>
        field(k) == IF Truthy(Get(params, k))
                    THEN << <<k, ToStr(Get(params, k))>> >> ELSE <<>>
    IN IF type = Str("STATIC_TEXT") /\ Truthy(Get(params, "content"))
       THEN base \o << <<"content", ToStr(Get(params, "content"))>> >>
       ELSE IF type = Str("DOCUMENT")
            THEN base \o field("fileUrl") \o field("fileName") \o field("fileSize")
            ELSE base

createMemorySourceRequest(cfg, token, creatureId, params) ==
    Request("POST",
            cfg.baseUrl \o "/api/creatures/" \o creatureId \o "/memory-sources",
            Bearer(token), FormBody(memorySourceForm(params)))

\* A variant of chatHeaders that sends the configured apiKey when the
\* credential is an API key.
chatHeadersConfiguredKey(cfg, token) ==
    IF StartsWith(token, "sk-")
    THEN ContentTypeJson @@ Bearer(cfg.apiKey)
    ELSE ContentTypeJson @@ Bearer(token)

\* The headers of chat: the same header in both branches of the test for
\* an API key.
chatHeaders(cfg, token) ==
    IF StartsWith(token, "sk-")
    THEN ContentTypeJson @@ Bearer(token)
    ELSE ContentTypeJson @@ Bearer(token)

\* A variant of chatRequestBody that wraps only a non-empty string.
chatRequestBodyTruthy(params) ==
    IF params.t = "string" /\ Truthy(params)
    THEN Obj(<< <<"message", params>> >>) ELSE params

\* typeof params === 'string' ? { message: params } : params
chatRequestBody(params) ==
    IF params.t = "string" THEN Obj(<< <<"message", params>> >>) ELSE params

chatRequest(cfg, token, creatureId, params) ==
    Request("POST", cfg.baseUrl \o "/api/creatures/" \o creatureId \o "/chat",
            chatHeaders(cfg, token), JsonBody(chatRequestBody(params)))

\* The standalone createCreature(params, options): the header is there
\* only for a truthy options.token.
standaloneCreateCreatureRequest(params, options) ==
    Request("POST", BASE_URL \o "/api/creatures",
            ContentTypeJson @@
              (IF ~Nullish(options) /\ Truthy(Get(options, "token"))
               THEN Bearer(ToStr(Get(options, "token"))) ELSE NoHeaders),
            JsonBody(params))

\* testEndpoint of the compiled copy: the signup path is probed with GET,
\* first over http, then over https.
testEndpointHttpRequest(cfg) ==
    Request("GET",
            Replace(cfg.baseUrl, "https://", "http://") \o "/api/auth/signup",
            ContentTypeJson, NoBody)
testEndpointHttpsRequest(cfg) ==
    Request("GET",
            Replace(cfg.baseUrl, "http://", "https://") \o "/api/auth/signup",
            ContentTypeJson, NoBody)

\* testEndpoint of the credential-callback variant: the sign-in page is
\* probed with GET, then the sign-in page of the OAuth provider.
testEndpointSigninRequest(cfg) ==
    privateFetch(Request("GET", cfg.baseUrl \o "/api/auth/signin",
                         ContentTypeJson, NoBody))
testEndpointOauthRequest(cfg) ==
    privateFetch(Request("GET", cfg.baseUrl \o "/api/auth/signin/google",
                         ContentTypeJson, NoBody))

(***************************************************************************)
(* Decoding.  r is what the fetch promise settled with and sm the message  *)
(* the engine gives a SyntaxError for r.text.                              *)
(***************************************************************************)
\* A rejected fetch: the awaiting function throws the rejection value.
FetchRejection(r) ==
    IF r.kind = "rejectError"
    THEN Threw(TransportError.name, TransportError.message)
    ELSE Threw("NonError", "")

\* What an await throws when the promise it waits for is rejected: the
\* rejection value of fetch, or of the read of the body.
Rejection(r) ==
    CASE r.kind \in {"rejectError", "rejectOther"} -> FetchRejection(r)
      [] r.kind = "bodyError" -> Threw(BodyError.name, BodyError.message)
      [] r.kind = "bodyOther" -> Threw("NonError", "")

\* await response.json()
responseJson(r, sm) ==
    IF IsJson(r.text) THEN Returned(JsonParse(r.text))
    ELSE Threw("SyntaxError", sm)

\* JSON.parse(responseText)
jsonParseText(r, sm) ==
    IF IsJson(r.text) THEN Returned(JsonParse(r.text))
    ELSE Threw("SyntaxError", sm)

\* const error = await response.json(); throw new Error(error.message)
throwServerMessage(r, sm) ==
    LET error == responseJson(r, sm)
    IN IF error.kind = "threw" THEN error
       ELSE IF Nullish(error.value) THEN ReadOfNullish(error.value, "message")
       ELSE Threw("Error", ErrorMessage(Get(error.value, "message")))

\* A variant of throwServerMessageOr that hands the decoded body of the
\* error response back instead of throwing.
returnServerBody(r, sm, fallback) == responseJson(r, sm)

\* const error = await response.json();
\* throw new Error(error.message || fallback)
throwServerMessageOr(r, sm, fallback) ==
    LET error == responseJson(r, sm)
    IN IF error.kind = "threw" THEN error
       ELSE IF Nullish(error.value) THEN ReadOfNullish(error.value, "message")
       ELSE Threw("Error",
                  ErrorMessage(OrElse(Get(error.value, "message"), Str(fallback))))

\* try { const error = JSON.parse(responseText);
\*       throw new Error(error.message || fallback) }
\* catch (e) { throw new Error(`Server returned ${status}: ${responseText}`) }
\* The catch clause also catches the Error the try block throws itself.
throwParsedOrStatus(r, sm, fallback) ==
    LET error == jsonParseText(r, sm)
        tried == IF error.kind = "threw" THEN error
                 ELSE IF Nullish(error.value)
                      THEN ReadOfNullish(error.value, "message")
                      ELSE Threw("Error",
                                 ErrorMessage(OrElse(Get(error.value, "message"),
                                                     Str(fallback))))
    IN IF tried.kind = "threw"
       THEN Threw("Error",
                  "Server returned " \o ToString(r.status) \o ": " \o r.text)
       ELSE tried

\* try { <decode> } catch (e) { throw new Error(`Invalid JSON response: ...`) }
orInvalidJson(r, tried) ==
    IF tried.kind = "threw"
    THEN Threw("Error", "Invalid JSON response: " \o r.text)
    ELSE tried

\* A variant of outerCatch that replaces whatever was thrown, an Error
\* too, by an Error with the method's own text.
outerCatchReplacingAll(tried, unexpected) ==
    IF tried.kind = "threw" THEN Threw("Error", unexpected) ELSE tried

\* A variant of outerCatch that rethrows whatever was thrown, an Error or
\* not.
outerCatchRethrowingAll(tried, unexpected) == tried

\* The outer catch of every method: an Error is rethrown, anything else is
\* replaced by an Error with the method's own text.
outerCatch(tried, unexpected) ==
    IF tried.kind = "threw" /\ tried.name = "NonError"
    THEN Threw("Error", unexpected)
    ELSE tried

\* jwt.sign(claims, secret, { expiresIn }): an opaque string made of the
\* claims, the secret and the lifetime (the issue time is left out).
jwtSign(userId, email, secret, expiresIn) ==
    "jwt(" \o ToStr(userId) \o "," \o ToStr(email) \o ")signed(" \o secret
    \o "," \o expiresIn \o ")"

\* A variant of mintAndReturn that returns the minted token without the
\* rest of the response.
mintAndReturnTokenOnly(data) ==
    IF Nullish(data) THEN ReadOfNullish(data, "user")
    ELSE IF Nullish(Get(data, "user")) THEN ReadOfNullish(Get(data, "user"), "id")
    ELSE Returned(Obj(<< <<"token",
             Str(jwtSign(Get(Get(data, "user"), "id"),
                         Get(Get(data, "user"), "email"),
                         "iloveburritosbaby", "1h"))>> >>))

\* A variant of mintAndReturn that mints only when the response has no
\* token.
mintAndReturnIfAbsent(data) ==
    IF Nullish(data) THEN ReadOfNullish(data, "user")
    ELSE IF Nullish(Get(data, "user")) THEN ReadOfNullish(Get(data, "user"), "id")
    ELSE Returned(WithProp(data, "token",
             OrElse(Get(data, "token"),
                    Str(jwtSign(Get(Get(data, "user"), "id"),
                                Get(Get(data, "user"), "email"),
                                "iloveburritosbaby", "1h")))))

\* const token = jwt.sign({ userId: data.user.id, email: data.user.email },
\*                        'iloveburritosbaby', { expiresIn: '1h' });
\* return { ...data, token };
mintAndReturn(data) ==
    IF Nullish(data) THEN ReadOfNullish(data, "user")
    ELSE IF Nullish(Get(data, "user")) THEN ReadOfNullish(Get(data, "user"), "id")
    ELSE Returned(WithProp(data, "token",
             Str(jwtSign(Get(Get(data, "user"), "id"),
                         Get(Get(data, "user"), "email"),
                         "iloveburritosbaby", "1h"))))

\* return { token: data.token, user: { id: data.user.id, email: ...,
\*          name: data.user.name, image: data.user.image } };
copyTokenAndUser(data) ==
    IF Nullish(data) THEN ReadOfNullish(data, "token")
    ELSE IF Nullish(Get(data, "user")) THEN ReadOfNullish(Get(data, "user"), "id")
    ELSE LET user == Get(data, "user")
         IN Returned(Obj(<< <<"token", Get(data, "token")>>,
                            <<"user", Obj(<< <<"id", Get(user, "id")>>,
                                             <<"email", Get(user, "email")>>,
                                             <<"name", Get(user, "name")>>,
                                             <<"image", Get(user, "image")>> >>)>> >>))

(***************************************************************************)
(* The part of each operation of src/index.ts after the await of fetch,    *)
(* and of signIn in the other two copies.                                  *)
(***************************************************************************)
signUpAfter(r, sm) ==
    outerCatch(
        IF r.kind # "response" THEN Rejection(r)
        ELSE IF ~Ok(r) THEN throwParsedOrStatus(r, sm, "Failed to sign up")
        ELSE orInvalidJson(r, jsonParseText(r, sm)),
        "An unexpected error occurred during sign up")

\* src/index.ts
signInAfter(r, sm) ==
    outerCatch(
        IF r.kind # "response" THEN Rejection(r)
        ELSE IF ~Ok(r) THEN throwServerMessage(r, sm)
        ELSE LET data == responseJson(r, sm)
             IN IF data.kind = "threw" THEN data ELSE mintAndReturn(data.value),
        "An unexpected error occurred during sign in")

\* The compiled copy, src/dist/index.js.
signInCompiledAfter(r, sm) ==
    outerCatch(
        IF r.kind # "response" THEN Rejection(r)
        ELSE IF ~Ok(r) THEN throwParsedOrStatus(r, sm, "Failed to sign in")
        ELSE LET data == jsonParseText(r, sm)
             IN orInvalidJson(r, IF data.kind = "threw" THEN data
                                 ELSE mintAndReturn(data.value)),
        "An unexpected error occurred during sign in")

\* The credential-callback variant.
signInCallbackAfter(r, sm) ==
    outerCatch(
        IF r.kind # "response" THEN Rejection(r)
        ELSE IF ~Ok(r) THEN throwParsedOrStatus(r, sm, "Failed to sign in")
        ELSE LET data == jsonParseText(r, sm)
             IN orInvalidJson(r, IF data.kind = "threw" THEN data
                                 ELSE copyTokenAndUser(data.value)),
        "An unexpected error occurred during sign in")

getCreaturesAfter(r, sm) ==
    outerCatch(
        IF r.kind # "response" THEN Rejection(r)
        ELSE IF ~Ok(r) THEN throwServerMessage(r, sm)
        ELSE responseJson(r, sm),
        "An unexpected error occurred while fetching creatures")

createCreatureAfter(r, sm) ==
    outerCatch(
        IF r.kind # "response" THEN Rejection(r)
        ELSE IF ~Ok(r) THEN throwServerMessageOr(r, sm, "Failed to create creature")
        ELSE responseJson(r, sm),
        "An unexpected error occurred while creating creature")

editCreatureAfter(r, sm) ==
    outerCatch(
        IF r.kind # "response" THEN Rejection(r)
        ELSE IF ~Ok(r) THEN throwServerMessageOr(r, sm, "Failed to update creature")
        ELSE responseJson(r, sm),
        "An unexpected error occurred while updating creature")

\* A variant of deleteCreatureAfter that decodes the body of a successful
\* response, as the other operations do.
deleteCreatureAfterDecoding(r, sm) ==
    outerCatch(
        IF r.kind # "response" THEN Rejection(r)
        ELSE IF ~Ok(r) THEN throwServerMessageOr(r, sm, "Failed to delete creature")
        ELSE responseJson(r, sm),
        "An unexpected error occurred while deleting creature")

deleteCreatureAfter(r, sm) ==
    outerCatch(
        IF r.kind # "response" THEN Rejection(r)
        ELSE IF ~Ok(r) THEN throwServerMessageOr(r, sm, "Failed to delete creature")
        ELSE Returned(Undefined),
        "An unexpected error occurred while deleting creature")

createMemorySourceAfter(r, sm) ==
    outerCatch(
        IF r.kind # "response" THEN Rejection(r)
        ELSE IF ~Ok(r) THEN throwServerMessage(r, sm)
        ELSE responseJson(r, sm),
        "An unexpected error occurred while creating memory source")

chatAfter(r, sm) ==
    outerCatch(
        IF r.kind # "response" THEN Rejection(r)
        ELSE IF ~Ok(r) THEN throwServerMessage(r, sm)
        ELSE responseJson(r, sm),
        "An unexpected error occurred while sending chat message")

\* The standalone createCreature has no try/catch, and reads the server's
\* text from the `error` property of the payload.
standaloneCreateCreatureAfter(r, sm) ==
    IF r.kind # "response" THEN Rejection(r)
    ELSE IF ~Ok(r)
         THEN LET error == responseJson(r, sm)
              IN IF error.kind = "threw" THEN error
                 ELSE IF Nullish(error.value)
                      THEN ReadOfNullish(error.value, "error")
                      ELSE Threw("Error",
                                 ErrorMessage(OrElse(Get(error.value, "error"),
                                                     Str("Failed to create creature"))))
         ELSE responseJson(r, sm)

(***************************************************************************)
(* The methods of the compiled copy, src/dist/index.js lines 16 to 295,    *)
(* written from its own text (its signIn is above).                        *)
(***************************************************************************)
\* signUp, to its await of fetch.
signUpCompiledRequest(cfg, options) ==
    Request("POST", cfg.baseUrl \o "/api/auth/signup",
            ("Content-Type" :> "application/json")
              @@ (IF cfg.apiKey # ""
                  THEN "Authorization" :> ("Bearer " \o cfg.apiKey)
                  ELSE NoHeaders),
            JsonBody(options))

\* signUp, from the await of fetch: the inner catch replaces whatever the
\* inner try throws, its own Error too.
signUpCompiledAfter(r, sm) ==
    LET error == jsonParseText(r, sm)
        failed ==
          IF error.kind = "threw" THEN error
          ELSE IF Nullish(error.value) THEN ReadOfNullish(error.value, "message")
          ELSE Threw("Error",
                     ErrorMessage(OrElse(Get(error.value, "message"),
                                         Str("Failed to sign up"))))
        parsed == jsonParseText(r, sm)
        tried ==
          IF r.kind # "response" THEN Rejection(r)
          ELSE IF ~Ok(r)
               THEN IF failed.kind = "threw"
                    THEN Threw("Error", "Server returned " \o ToString(r.status)
                                        \o ": " \o r.text)
                    ELSE failed
               ELSE IF parsed.kind = "threw"
                    THEN Threw("Error", "Invalid JSON response: " \o r.text)
                    ELSE parsed
    IN IF tried.kind = "threw" /\ tried.name = "NonError"
       THEN Threw("Error", "An unexpected error occurred during sign up")
       ELSE tried

getCreaturesCompiledRequest(cfg, token) ==
    Request("GET", cfg.baseUrl \o "/api/creatures",
            ("Content-Type" :> "application/json") @@ ("Authorization" :> ("Bearer " \o token)), NoBody)

\* getCreatures, from the await of fetch.
getCreaturesCompiledAfter(r, sm) ==
    LET error == responseJson(r, sm)
        tried ==
          IF r.kind # "response" THEN Rejection(r)
          ELSE IF ~Ok(r)
               THEN IF error.kind = "threw" THEN error
                    ELSE IF Nullish(error.value)
                         THEN ReadOfNullish(error.value, "message")
                         ELSE Threw("Error", ErrorMessage(Get(error.value, "message")))
               ELSE responseJson(r, sm)
    IN IF tried.kind = "threw" /\ tried.name = "NonError"
       THEN Threw("Error", "An unexpected error occurred while fetching creatures")
       ELSE tried

createCreatureCompiledRequest(cfg, token, params) ==
    Request("POST", cfg.baseUrl \o "/api/creatures",
            ("Content-Type" :> "application/json") @@ ("Authorization" :> ("Bearer " \o token)), JsonBody(params))

\* createCreature, from the await of fetch.
createCreatureCompiledAfter(r, sm) ==
    LET error == responseJson(r, sm)
        tried ==
          IF r.kind # "response" THEN Rejection(r)
          ELSE IF ~Ok(r)
               THEN IF error.kind = "threw" THEN error
                    ELSE IF Nullish(error.value)
                         THEN ReadOfNullish(error.value, "message")
                         ELSE Threw("Error",
                                ErrorMessage(OrElse(Get(error.value, "message"),
                                                    Str("Failed to create creature"))))
               ELSE responseJson(r, sm)
    IN IF tried.kind = "threw" /\ tried.name = "NonError"
       THEN Threw("Error", "An unexpected error occurred while creating creature")
       ELSE tried

editCreatureCompiledRequest(cfg, token, id, params) ==
    Request("PUT", cfg.baseUrl \o "/api/creatures/" \o id,
            ("Content-Type" :> "application/json") @@ ("Authorization" :> ("Bearer " \o token)), JsonBody(params))

\* editCreature, from the await of fetch.
editCreatureCompiledAfter(r, sm) ==
    LET error == responseJson(r, sm)
        tried ==
          IF r.kind # "response" THEN Rejection(r)
          ELSE IF ~Ok(r)
               THEN IF error.kind = "threw" THEN error
                    ELSE IF Nullish(error.value)
                         THEN ReadOfNullish(error.value, "message")
                         ELSE Threw("Error",
                                ErrorMessage(OrElse(Get(error.value, "message"),
                                                    Str("Failed to update creature"))))
               ELSE responseJson(r, sm)
    IN IF tried.kind = "threw" /\ tried.name = "NonError"
       THEN Threw("Error", "An unexpected error occurred while updating creature")
       ELSE tried

deleteCreatureCompiledRequest(cfg, token, id) ==
    Request("DELETE", cfg.baseUrl \o "/api/creatures/" \o id,
            ("Authorization" :> ("Bearer " \o token)), NoBody)

\* deleteCreature, from the await of fetch: nothing is read of a 2xx.
deleteCreatureCompiledAfter(r, sm) ==
    LET error == responseJson(r, sm)
        tried ==
          IF r.kind # "response" THEN Rejection(r)
          ELSE IF ~Ok(r)
               THEN IF error.kind = "threw" THEN error
                    ELSE IF Nullish(error.value)
                         THEN ReadOfNullish(error.value, "message")
                         ELSE Threw("Error",
                                ErrorMessage(OrElse(Get(error.value, "message"),
                                                    Str("Failed to delete creature"))))
               ELSE Returned(Undefined)
    IN IF tried.kind = "threw" /\ tried.name = "NonError"
       THEN Threw("Error", "An unexpected error occurred while deleting creature")
       ELSE tried

\* createMemorySource, to its await of fetch: the FormData, then the request.
createMemorySourceCompiledRequest(cfg, token, creatureId, params) ==
    LET type == Get(params, "type")
        appended(k) == IF Truthy(Get(params, k))
                       THEN << <<k, ToStr(Get(params, k))>> >> ELSE <<>>
        formData ==
          << <<"name", ToStr(Get(params, "name"))>>, <<"type", ToStr(type)>> >>
          \o (IF type = Str("STATIC_TEXT") /\ Truthy(Get(params, "content"))
              THEN << <<"content", ToStr(Get(params, "content"))>> >>
              ELSE IF type = Str("DOCUMENT")
                   THEN appended("fileUrl") \o appended("fileName")
                        \o appended("fileSize")
                   ELSE <<>>)
    IN Request("POST",
               cfg.baseUrl \o "/api/creatures/" \o creatureId \o "/memory-sources",
               ("Authorization" :> ("Bearer " \o token)), FormBody(formData))

\* createMemorySource, from the await of fetch.
createMemorySourceCompiledAfter(r, sm) ==
    LET error == responseJson(r, sm)
        tried ==
          IF r.kind # "response" THEN Rejection(r)
          ELSE IF ~Ok(r)
               THEN IF error.kind = "threw" THEN error
                    ELSE IF Nullish(error.value)
                         THEN ReadOfNullish(error.value, "message")
                         ELSE Threw("Error", ErrorMessage(Get(error.value, "message")))
               ELSE responseJson(r, sm)
    IN IF tried.kind = "threw" /\ tried.name = "NonError"
       THEN Threw("Error", "An unexpected error occurred while creating memory source")
       ELSE tried

\* chat, to its await of fetch: the headers, the body, then the request.
chatCompiledRequest(cfg, token, creatureId, params) ==
    LET headers ==
          IF StartsWith(token, "sk-")
          THEN ("Content-Type" :> "application/json") @@ ("Authorization" :> ("Bearer " \o token))
          ELSE ("Content-Type" :> "application/json") @@ ("Authorization" :> ("Bearer " \o token))
        requestBody ==
          IF params.t = "string" THEN Obj(<< <<"message", params>> >>) ELSE params
    IN Request("POST", cfg.baseUrl \o "/api/creatures/" \o creatureId \o "/chat",
               headers, JsonBody(requestBody))

\* chat, from the await of fetch.
chatCompiledAfter(r, sm) ==
    LET error == responseJson(r, sm)
        tried ==
          IF r.kind # "response" THEN Rejection(r)
          ELSE IF ~Ok(r)
               THEN IF error.kind = "threw" THEN error
                    ELSE IF Nullish(error.value)
                         THEN ReadOfNullish(error.value, "message")
                         ELSE Threw("Error", ErrorMessage(Get(error.value, "message")))
               ELSE responseJson(r, sm)
    IN IF tried.kind = "threw" /\ tried.name = "NonError"
       THEN Threw("Error", "An unexpected error occurred while sending chat message")
       ELSE tried

(***************************************************************************)
(* The methods of the credential-callback variant, src/dist/index.js lines *)
(* 439 to 757, written from its own text (its signIn is above).            *)
(***************************************************************************)
\* signUp, to its await of fetch.
signUpCallbackRequest(cfg, options) ==
    Request("POST", cfg.baseUrl \o "/api/auth/signup",
            ("Content-Type" :> "application/json")
              @@ (IF cfg.apiKey # ""
                  THEN "Authorization" :> ("Bearer " \o cfg.apiKey)
                  ELSE NoHeaders),
            JsonBody(options))

\* signUp, from the await of fetch: the inner catch replaces whatever the
\* inner try throws, its own Error too.
signUpCallbackAfter(r, sm) ==
    LET error == jsonParseText(r, sm)
        failed ==
          IF error.kind = "threw" THEN error
          ELSE IF Nullish(error.value) THEN ReadOfNullish(error.value, "message")
          ELSE Threw("Error",
                     ErrorMessage(OrElse(Get(error.value, "message"),
                                         Str("Failed to sign up"))))
        parsed == jsonParseText(r, sm)
        tried ==
          IF r.kind # "response" THEN Rejection(r)
          ELSE IF ~Ok(r)
               THEN IF failed.kind = "threw"
                    THEN Threw("Error", "Server returned " \o ToString(r.status)
                                        \o ": " \o r.text)
                    ELSE failed
               ELSE IF parsed.kind = "threw"
                    THEN Threw("Error", "Invalid JSON response: " \o r.text)
                    ELSE parsed
    IN IF tried.kind = "threw" /\ tried.name = "NonError"
       THEN Threw("Error", "An unexpected error occurred during sign up")
       ELSE tried

getCreaturesCallbackRequest(cfg, token) ==
    Request("GET", cfg.baseUrl \o "/api/creatures",
            ("Content-Type" :> "application/json") @@ ("Authorization" :> ("Bearer " \o token)), NoBody)

\* getCreatures, from the await of fetch.
getCreaturesCallbackAfter(r, sm) ==
    LET error == responseJson(r, sm)
        tried ==
          IF r.kind # "response" THEN Rejection(r)
          ELSE IF ~Ok(r)
               THEN IF error.kind = "threw" THEN error
                    ELSE IF Nullish(error.value)
                         THEN ReadOfNullish(error.value, "message")
                         ELSE Threw("Error", ErrorMessage(Get(error.value, "message")))
               ELSE responseJson(r, sm)
    IN IF tried.kind = "threw" /\ tried.name = "NonError"
       THEN Threw("Error", "An unexpected error occurred while fetching creatures")
       ELSE tried

createCreatureCallbackRequest(cfg, token, params) ==
    Request("POST", cfg.baseUrl \o "/api/creatures",
            ("Content-Type" :> "application/json") @@ ("Authorization" :> ("Bearer " \o token)), JsonBody(params))

\* createCreature, from the await of fetch.
createCreatureCallbackAfter(r, sm) ==
    LET error == responseJson(r, sm)
        tried ==
          IF r.kind # "response" THEN Rejection(r)
          ELSE IF ~Ok(r)
               THEN IF error.kind = "threw" THEN error
                    ELSE IF Nullish(error.value)
                         THEN ReadOfNullish(error.value, "message")
                         ELSE Threw("Error",
                                ErrorMessage(OrElse(Get(error.value, "message"),
                                                    Str("Failed to create creature"))))
               ELSE responseJson(r, sm)
    IN IF tried.kind = "threw" /\ tried.name = "NonError"
       THEN Threw("Error", "An unexpected error occurred while creating creature")
       ELSE tried

editCreatureCallbackRequest(cfg, token, id, params) ==
    Request("PUT", cfg.baseUrl \o "/api/creatures/" \o id,
            ("Content-Type" :> "application/json") @@ ("Authorization" :> ("Bearer " \o token)), JsonBody(params))

\* editCreature, from the await of fetch.
editCreatureCallbackAfter(r, sm) ==
    LET error == responseJson(r, sm)
        tried ==
          IF r.kind # "response" THEN Rejection(r)
          ELSE IF ~Ok(r)
               THEN IF error.kind = "threw" THEN error
                    ELSE IF Nullish(error.value)
                         THEN ReadOfNullish(error.value, "message")
                         ELSE Threw("Error",
                                ErrorMessage(OrElse(Get(error.value, "message"),
                                                    Str("Failed to update creature"))))
               ELSE responseJson(r, sm)
    IN IF tried.kind = "threw" /\ tried.name = "NonError"
       THEN Threw("Error", "An unexpected error occurred while updating creature")
       ELSE tried

deleteCreatureCallbackRequest(cfg, token, id) ==
    Request("DELETE", cfg.baseUrl \o "/api/creatures/" \o id,
            ("Authorization" :> ("Bearer " \o token)), NoBody)

\* deleteCreature, from the await of fetch: nothing is read of a 2xx.
deleteCreatureCallbackAfter(r, sm) ==
    LET error == responseJson(r, sm)
        tried ==
          IF r.kind # "response" THEN Rejection(r)
          ELSE IF ~Ok(r)
               THEN IF error.kind = "threw" THEN error
                    ELSE IF Nullish(error.value)
                         THEN ReadOfNullish(error.value, "message")
                         ELSE Threw("Error",
                                ErrorMessage(OrElse(Get(error.value, "message"),
                                                    Str("Failed to delete creature"))))
               ELSE Returned(Undefined)
    IN IF tried.kind = "threw" /\ tried.name = "NonError"
       THEN Threw("Error", "An unexpected error occurred while deleting creature")
       ELSE tried

\* createMemorySource, to its await of fetch: the FormData, then the request.
createMemorySourceCallbackRequest(cfg, token, creatureId, params) ==
    LET type == Get(params, "type")
        appended(k) == IF Truthy(Get(params, k))
                       THEN << <<k, ToStr(Get(params, k))>> >> ELSE <<>>
        formData ==
          << <<"name", ToStr(Get(params, "name"))>>, <<"type", ToStr(type)>> >>
          \o (IF type = Str("STATIC_TEXT") /\ Truthy(Get(params, "content"))
              THEN << <<"content", ToStr(Get(params, "content"))>> >>
              ELSE IF type = Str("DOCUMENT")
                   THEN appended("fileUrl") \o appended("fileName")
                        \o appended("fileSize")
                   ELSE <<>>)
    IN Request("POST",
               cfg.baseUrl \o "/api/creatures/" \o creatureId \o "/memory-sources",
               ("Authorization" :> ("Bearer " \o token)), FormBody(formData))

\* createMemorySource, from the await of fetch.
createMemorySourceCallbackAfter(r, sm) ==
    LET error == responseJson(r, sm)
        tried ==
          IF r.kind # "response" THEN Rejection(r)
          ELSE IF ~Ok(r)
               THEN IF error.kind = "threw" THEN error
                    ELSE IF Nullish(error.value)
                         THEN ReadOfNullish(error.value, "message")
                         ELSE Threw("Error", ErrorMessage(Get(error.value, "message")))
               ELSE responseJson(r, sm)
    IN IF tried.kind = "threw" /\ tried.name = "NonError"
       THEN Threw("Error", "An unexpected error occurred while creating memory source")
       ELSE tried

\* A variant of chatCallbackRequest in which the credential-callback
\* variant sends the request of chat through its private fetch, as it does
\* the request of its signIn.
chatCallbackRequestThroughPrivateFetch(cfg, token, creatureId, params) ==
    LET headers ==
          IF StartsWith(token, "sk-")
          THEN ("Content-Type" :> "application/json") @@ ("Authorization" :> ("Bearer " \o token))
          ELSE ("Content-Type" :> "application/json") @@ ("Authorization" :> ("Bearer " \o token))
        requestBody ==
          IF params.t = "string" THEN Obj(<< <<"message", params>> >>) ELSE params
    IN privateFetch(
         Request("POST", cfg.baseUrl \o "/api/creatures/" \o creatureId \o "/chat",
                 headers, JsonBody(requestBody)))

\* chat, to its await of fetch: the headers, the body, then the request.
chatCallbackRequest(cfg, token, creatureId, params) ==
    LET headers ==
          IF StartsWith(token, "sk-")
          THEN ("Content-Type" :> "application/json") @@ ("Authorization" :> ("Bearer " \o token))
          ELSE ("Content-Type" :> "application/json") @@ ("Authorization" :> ("Bearer " \o token))
        requestBody ==
          IF params.t = "string" THEN Obj(<< <<"message", params>> >>) ELSE params
    IN Request("POST", cfg.baseUrl \o "/api/creatures/" \o creatureId \o "/chat",
               headers, JsonBody(requestBody))

\* chat, from the await of fetch.
chatCallbackAfter(r, sm) ==
    LET error == responseJson(r, sm)
        tried ==
          IF r.kind # "response" THEN Rejection(r)
          ELSE IF ~Ok(r)
               THEN IF error.kind = "threw" THEN error
                    ELSE IF Nullish(error.value)
                         THEN ReadOfNullish(error.value, "message")
                         ELSE Threw("Error", ErrorMessage(Get(error.value, "message")))
               ELSE responseJson(r, sm)
    IN IF tried.kind = "threw" /\ tried.name = "NonError"
       THEN Threw("Error", "An unexpected error occurred while sending chat message")
       ELSE tried

(***************************************************************************)
(* The methods of the class as functions of the copy.                      *)
(***************************************************************************)
\* The request the method op of copy cp hands to fetch.
RequestOf(cp, op, cfg, token, id, params) ==
    CASE cp = "source" ->
           (CASE op = "signUp" -> signUpRequest(cfg, params)
              [] op = "signIn" -> signInRequest(cfg, params)
              [] op = "getCreatures" -> getCreaturesRequest(cfg, token)
              [] op = "createCreature" -> createCreatureRequest(cfg, token, params)
              [] op = "editCreature" -> editCreatureRequest(cfg, token, id, params)
              [] op = "deleteCreature" -> deleteCreatureRequest(cfg, token, id)
              [] op = "createMemorySource" ->
                     createMemorySourceRequest(cfg, token, id, params)
              [] op = "chat" -> chatRequest(cfg, token, id, params))
      [] cp = "compiled" ->
           (CASE op = "signUp" -> signUpCompiledRequest(cfg, params)
              [] op = "signIn" -> signInRequest(cfg, params)
              [] op = "getCreatures" -> getCreaturesCompiledRequest(cfg, token)
              [] op = "createCreature" ->
                     createCreatureCompiledRequest(cfg, token, params)
              [] op = "editCreature" ->
                     editCreatureCompiledRequest(cfg, token, id, params)
              [] op = "deleteCreature" -> deleteCreatureCompiledRequest(cfg, token, id)
              [] op = "createMemorySource" ->
                     createMemorySourceCompiledRequest(cfg, token, id, params)
              [] op = "chat" -> chatCompiledRequest(cfg, token, id, params))
      [] cp = "callback" ->
           (CASE op = "signUp" -> signUpCallbackRequest(cfg, params)
              [] op = "signIn" -> signInCallbackRequest(cfg, params)
              [] op = "getCreatures" -> getCreaturesCallbackRequest(cfg, token)
              [] op = "createCreature" ->
                     createCreatureCallbackRequest(cfg, token, params)
              [] op = "editCreature" ->
                     editCreatureCallbackRequest(cfg, token, id, params)
              [] op = "deleteCreature" -> deleteCreatureCallbackRequest(cfg, token, id)
              [] op = "createMemorySource" ->
                     createMemorySourceCallbackRequest(cfg, token, id, params)
              [] op = "chat" -> chatCallbackRequest(cfg, token, id, params))

\* How the method op of copy cp ends when its transport goes as r says.
OutcomeOf(cp, op, r, sm) ==
    CASE cp = "source" ->
           (CASE op = "signUp" -> signUpAfter(r, sm)
              [] op = "signIn" -> signInAfter(r, sm)
              [] op = "getCreatures" -> getCreaturesAfter(r, sm)
              [] op = "createCreature" -> createCreatureAfter(r, sm)
              [] op = "editCreature" -> editCreatureAfter(r, sm)
              [] op = "deleteCreature" -> deleteCreatureAfter(r, sm)
              [] op = "createMemorySource" -> createMemorySourceAfter(r, sm)
              [] op = "chat" -> chatAfter(r, sm))
      [] cp = "compiled" ->
           (CASE op = "signUp" -> signUpCompiledAfter(r, sm)
              [] op = "signIn" -> signInCompiledAfter(r, sm)
              [] op = "getCreatures" -> getCreaturesCompiledAfter(r, sm)
              [] op = "createCreature" -> createCreatureCompiledAfter(r, sm)
              [] op = "editCreature" -> editCreatureCompiledAfter(r, sm)
              [] op = "deleteCreature" -> deleteCreatureCompiledAfter(r, sm)
              [] op = "createMemorySource" -> createMemorySourceCompiledAfter(r, sm)
              [] op = "chat" -> chatCompiledAfter(r, sm))
      [] cp = "callback" ->
           (CASE op = "signUp" -> signUpCallbackAfter(r, sm)
              [] op = "signIn" -> signInCallbackAfter(r, sm)
              [] op = "getCreatures" -> getCreaturesCallbackAfter(r, sm)
              [] op = "createCreature" -> createCreatureCallbackAfter(r, sm)
              [] op = "editCreature" -> editCreatureCallbackAfter(r, sm)
              [] op = "deleteCreature" -> deleteCreatureCallbackAfter(r, sm)
              [] op = "createMemorySource" -> createMemorySourceCallbackAfter(r, sm)
              [] op = "chat" -> chatCallbackAfter(r, sm))

(***************************************************************************)
(* What the caller passes.                                                 *)
(***************************************************************************)
ConfigInputs ==
    [baseUrl : {Undefined, Str("http://localhost:3000")},
     apiKey : {Undefined, Str("sk-config")}]

\* The three copies of the class: src/index.ts, its compiled copy and the
\* credential-callback variant (both in src/dist/index.js).
Copies == {"source", "compiled", "callback"}

Tokens == {"jwt-session", "sk-creature"}
Ids == {"c1", "c2"}

\* An optional property: absent when its value is undefined.
Prop(k, v) == IF v.t = "undefined" THEN <<>> ELSE << <<k, v>> >>

Email == Str("a@b.c")
SignUpOptions ==
    { Obj(<< <<"email", Email>> >>),
      Obj(<< <<"email", Email>>, <<"name", Str("Ann")>>, <<"password", Str("pw")>> >>) }
SignInOptions ==
    { Obj(<< <<"email", Email>> >>),
      Obj(<< <<"email", Email>>, <<"password", Str("pw")>> >>) }
CreateCreatureParams ==
    { Obj(<< <<"name", Str("Rex")>>, <<"description", Str("a dog")>> >>) }
UpdateCreatureParams ==
    { Obj(Prop("name", n) \o Prop("description", d)) :
        n \in {Undefined, Str(""), Str("Rex")}, d \in {Undefined, Str("a dog")} }
CreateMemorySourceParams ==
    { Obj(<< <<"name", n>>, <<"type", t>> >> \o Prop("content", c)
          \o Prop("file", f) \o Prop("fileUrl", u) \o Prop("fileName", fn)
          \o Prop("fileSize", fs)) :
        n \in {Str(""), Str("Notes")},
        t \in {Str("STATIC_TEXT"), Str("DOCUMENT")},
        c \in {Undefined, Str(""), Str("likes bones")},
        f \in {Undefined, FileOf("a.pdf")},
        u \in {Undefined, Str(""), Str("https://files/a.pdf")},
        fn \in {Undefined, Str(""), Str("a.pdf")},
        fs \in {Undefined} \cup {Num(n) : n \in 0..MaxFileSize} }
ChatParams ==
    {Str(m) : m \in {"", "hello"}}
    \cup {Obj(<< <<"message", Str(m)>> >>) : m \in {"", "hello"}}
    \cup {Obj(<< <<"message", Str("hello")>>, <<"sessionId", Str("s1")>> >>)}

\* The methods of the class that the copies share, and every operation.
ClassOps ==
    {"signUp", "signIn", "getCreatures", "createCreature", "editCreature",
     "deleteCreature", "createMemorySource", "chat"}
AllOps == ClassOps \cup {"standaloneCreateCreature"}

\* The arguments a method takes, as <<token, id, params>>.
ArgumentsOf(op) ==
    CASE op = "signUp" -> {<<"", "", o>> : o \in SignUpOptions}
      [] op = "signIn" -> {<<"", "", o>> : o \in SignInOptions}
      [] op = "getCreatures" -> {<<t, "", Undefined>> : t \in Tokens}
      [] op = "createCreature" ->
             {<<t, "", p>> : t \in Tokens, p \in CreateCreatureParams}
      [] op = "editCreature" ->
             {<<t, i, p>> : t \in Tokens, i \in Ids, p \in UpdateCreatureParams}
      [] op = "deleteCreature" ->
             {<<t, i, Undefined>> : t \in Tokens, i \in Ids}
      [] op = "createMemorySource" ->
             {<<t, i, p>> : t \in Tokens, i \in Ids, p \in CreateMemorySourceParams}
      [] op = "chat" -> {<<t, i, p>> : t \in Tokens, i \in Ids, p \in ChatParams}

\* The calls the caller makes of the running client: each method for each
\* of two sessions, among them the calls with missing or empty fields (a
\* memory source without content and without a name, a document without a
\* file, an empty message, an edit that changes nothing).
SomeArgumentsOf(op) ==
    CASE op = "getCreatures" -> {<<t, "", Undefined>> : t \in Tokens}
      [] op = "editCreature" ->
             { <<"jwt-session", "c1", Obj(<<>>)>>,
               <<"sk-creature", "c2",
                 Obj(<< <<"name", Str("Rex")>>, <<"description", Str("a dog")>> >>)>> }
      [] op = "deleteCreature" ->
             { <<"jwt-session", "c1", Undefined>>, <<"sk-creature", "c2", Undefined>> }
      [] op = "createMemorySource" ->
             { <<"jwt-session", "c1",
                 Obj(<< <<"name", Str("")>>, <<"type", Str("STATIC_TEXT")>> >>)>>,
               <<"jwt-session", "c1",
                 Obj(<< <<"name", Str("Notes")>>, <<"type", Str("DOCUMENT")>> >>)>>,
               <<"sk-creature", "c2",
                 Obj(<< <<"name", Str("Notes")>>, <<"type", Str("DOCUMENT")>>,
                        <<"fileUrl", Str("https://files/a.pdf")>>,
                        <<"fileName", Str("a.pdf")>>,
                        <<"fileSize", Num(MaxFileSize)>> >>)>> }
      [] op = "chat" ->
             { <<"jwt-session", "c1", Str("")>>,
               <<"sk-creature", "c2",
                 Obj(<< <<"message", Str("hello")>>, <<"sessionId", Str("s1")>> >>)>> }
      [] OTHER -> ArgumentsOf(op)

(***************************************************************************)
(* The state.                                                              *)
(*   config   this.config, set by the constructor                          *)
(*   copy     which copy of the class the client is an instance of         *)
(*   initLog  what the constructor wrote to the console                    *)
(*   given    the argument the constructor was called with                 *)
(*   call     the invocations, one per slot: where each is suspended (at   *)
(*            its await of fetch with its arguments, or at its await of    *)
(*            the body with the status of the response), what it has       *)
(*            logged and how often it has called fetch                     *)
(*   wire     per slot, the request the invocation has handed to fetch and *)
(*            that is not answered yet                                     *)
(*   result   the invocation that has ended in the last step: how its      *)
(*            transport went, how it ended, what it logged, how often it   *)
(*            called fetch                                                 *)
(***************************************************************************)
Slots == 1..MaxInFlight

Idle ==
    [pc |-> "idle", op |-> "", token |-> "", id |-> "", params |-> Undefined,
     log |-> <<>>, fetches |-> 0, status |-> 0]
NoRequest == Request("", "", NoHeaders, NoBody)
NoSettlement == [kind |-> "none", status |-> 0, text |-> ""]
NoResult ==
    [op |-> "", settled |-> NoSettlement,
     outcome |-> [kind |-> "pending", value |-> Undefined, name |-> "",
                  message |-> ""],
     log |-> <<>>, fetches |-> 0]

Init ==
    /\ given \in ConfigInputs
    /\ config = Construct(given)
    /\ initLog = ConstructLog(Construct(given))
    /\ copy \in Copies
    /\ call = [i \in Slots |-> Idle]
    /\ wire = [i \in Slots |-> NoRequest]
    /\ result = NoResult

\* A method can be called at any time; the model has room for MaxInFlight
\* invocations, and a new one takes the first slot that is not in use.
HasRoom == \E i \in Slots : call[i].pc = "idle"
NextSlot ==
    CHOOSE i \in Slots :
        /\ call[i].pc = "idle"
        /\ \A j \in Slots : call[j].pc = "idle" => i <= j
Awaiting(i, op) == call[i].pc = "awaiting" /\ call[i].op = op
Reading(i, op) == call[i].pc = "reading" /\ call[i].op = op

\* The bodies the server answers with.  An invocation that is the only one
\* in flight is answered with any of BodyTexts; while another is in flight,
\* with one of a shorter list: an error message, a session, an error page.
\* The probes of testEndpoint are answered with the error page.
Overlapping(i) == \E j \in Slots : j # i /\ call[j].pc # "idle"
TextsFor(i) ==
    IF call[i].op = "testEndpoint" THEN {ErrorPage}
    ELSE IF Overlapping(i)
         THEN { Stringify(Obj(<< <<"message", Str("Invalid credentials")>> >>)),
                Stringify(Obj(<< <<"token", Str(ServerToken)>>,
                                 <<"user", ServerUser>> >>)),
                ErrorPage }
         ELSE BodyTexts

\* What may follow the response invocation i has got: its body arrives, or
\* the read of it fails.
BodiesOf(i) ==
    [kind : {"response"}, status : {call[i].status}, text : TextsFor(i)]
    \cup [kind : IF Overlapping(i) THEN {"bodyError"} ELSE {"bodyError", "bodyOther"},
           status : {call[i].status}, text : {""}]

\* A variant of Start in which the request is sent a second time before
\* the invocation awaits.
StartSendingTwice(op, token, id, params, req, log) ==
    /\ call' = [call EXCEPT ![NextSlot] =
                  [pc |-> "awaiting", op |-> op, token |-> token, id |-> id,
                   params |-> params, log |-> log, fetches |-> 2, status |-> 0]]
    /\ wire' = [wire EXCEPT ![NextSlot] = req]
    /\ result' = NoResult
    /\ UNCHANGED client

\* A variant of Start in which the invocations of a client build their
\* request in one object: the new request replaces the one of every
\* invocation that is waiting for fetch.
StartSharingRequest(op, token, id, params, req, log) ==
    /\ call' = [call EXCEPT ![NextSlot] =
                  [pc |-> "awaiting", op |-> op, token |-> token, id |-> id,
                   params |-> params, log |-> log, fetches |-> 1, status |-> 0]]
    /\ wire' = [i \in Slots |->
                  IF i = NextSlot \/ call[i].pc = "awaiting" THEN req ELSE wire[i]]
    /\ result' = NoResult
    /\ UNCHANGED client

\* A method is called and runs up to its await of fetch: the request goes
\* out.
Start(op, token, id, params, req, log) ==
    /\ call' = [call EXCEPT ![NextSlot] =
                  [pc |-> "awaiting", op |-> op, token |-> token, id |-> id,
                   params |-> params, log |-> log, fetches |-> 1, status |-> 0]]
    /\ wire' = [wire EXCEPT ![NextSlot] = req]
    /\ result' = NoResult
    /\ UNCHANGED client

\* The fetch promise of invocation i resolves with a response of the given
\* status and the invocation runs up to its await of the body.  Its
\* arguments are not read again.
Read(i, status) ==
    /\ call' = [call EXCEPT ![i] =
                  [pc |-> "reading", op |-> call[i].op, token |-> "", id |-> "",
                   params |-> Undefined, log |-> call[i].log,
                   fetches |-> call[i].fetches, status |-> status]]
    /\ wire' = [wire EXCEPT ![i] = NoRequest]
    /\ result' = NoResult
    /\ UNCHANGED client

\* A variant of Finish that keeps the token of a successful result in the
\* client, as the credential of the calls that follow.
FinishKeepingToken(i, r, outcome, log) ==
    /\ result' = [op |-> call[i].op, settled |-> r, outcome |-> outcome,
                  log |-> call[i].log \o log, fetches |-> call[i].fetches]
    /\ call' = [call EXCEPT ![i] = Idle]
    /\ wire' = [wire EXCEPT ![i] = NoRequest]
    /\ config' = IF /\ outcome.kind = "returned"
                    /\ outcome.value.t = "object"
                    /\ Get(outcome.value, "token").t = "string"
                 THEN [config EXCEPT !.apiKey = Get(outcome.value, "token").s]
                 ELSE config
    /\ UNCHANGED <<copy, initLog, given>>

\* Invocation i resumes for the last time, its transport having gone as r
\* says, and runs to its end: it returns or throws.
Finish(i, r, outcome, log) ==
    /\ result' = [op |-> call[i].op, settled |-> r, outcome |-> outcome,
                  log |-> call[i].log \o log, fetches |-> call[i].fetches]
    /\ call' = [call EXCEPT ![i] = Idle]
    /\ wire' = [wire EXCEPT ![i] = NoRequest]
    /\ UNCHANGED client

\* Invocation i has the body of its response and runs up to its next await
\* of fetch: one more request goes out.
FetchAgain(i, req, log) ==
    /\ call' = [call EXCEPT ![i].pc = "awaiting", ![i].fetches = @ + 1,
                            ![i].log = @ \o log, ![i].status = 0]
    /\ wire' = [wire EXCEPT ![i] = req]
    /\ result' = NoResult
    /\ UNCHANGED client

\* console.log('Making request to:', url)
LogRequest(url) == << <<"Making request to:", url>> >>

\* console.log('Response status:', ...); console.log('Response body:', ...)
\* Both are written once the body has arrived.
LogResponse(r) ==
    IF r.kind = "response"
    THEN << <<"Response status:", ToString(r.status)>>,
            <<"Response body:", r.text>> >>
    ELSE <<>>

\* What testEndpoint logs of a response; the response carries no Allow
\* header, so headers.get('allow') is null.
LogProbe(label, r) ==
    << <<label \o " Response status:", ToString(r.status)>>,
       <<label \o " Response body:", r.text>>,
       <<label \o " Allowed methods:", "null">> >>

(***************************************************************************)
(* The operations, from the call to the await of fetch.                    *)
(***************************************************************************)
signUp ==
    /\ HasRoom
    /\ \E a \in SomeArgumentsOf("signUp") :
        Start("signUp", "", "", a[3],
              (CASE copy = "source" -> signUpRequest(config, a[3])
                 [] copy = "compiled" -> signUpCompiledRequest(config, a[3])
                 [] copy = "callback" -> signUpCallbackRequest(config, a[3])),
              LogRequest((CASE copy = "source" -> signUpRequest(config, a[3])
                 [] copy = "compiled" -> signUpCompiledRequest(config, a[3])
                 [] copy = "callback" -> signUpCallbackRequest(config, a[3])).url))

signIn ==
    /\ HasRoom
    /\ \E a \in SomeArgumentsOf("signIn") :
        Start("signIn", "", "", a[3],
              (CASE copy = "source" -> signInRequest(config, a[3])
                 [] copy = "compiled" -> signInRequest(config, a[3])
                 [] copy = "callback" -> signInCallbackRequest(config, a[3])),
              IF copy = "source" THEN <<>>
              ELSE LogRequest((CASE copy = "source" -> signInRequest(config, a[3])
                 [] copy = "compiled" -> signInRequest(config, a[3])
                 [] copy = "callback" -> signInCallbackRequest(config, a[3])).url))

getCreatures ==
    /\ HasRoom
    /\ \E a \in SomeArgumentsOf("getCreatures") :
        Start("getCreatures", a[1], "", Undefined,
              (CASE copy = "source" -> getCreaturesRequest(config, a[1])
                 [] copy = "compiled" -> getCreaturesCompiledRequest(config, a[1])
                 [] copy = "callback" -> getCreaturesCallbackRequest(config, a[1])), <<>>)

createCreature ==
    /\ HasRoom
    /\ \E a \in SomeArgumentsOf("createCreature") :
        Start("createCreature", a[1], "", a[3],
              (CASE copy = "source" -> createCreatureRequest(config, a[1], a[3])
                 [] copy = "compiled" -> createCreatureCompiledRequest(config, a[1], a[3])
                 [] copy = "callback" -> createCreatureCallbackRequest(config, a[1], a[3])), <<>>)

editCreature ==
    /\ HasRoom
    /\ \E a \in SomeArgumentsOf("editCreature") :
        Start("editCreature", a[1], a[2], a[3],
              (CASE copy = "source" -> editCreatureRequest(config, a[1], a[2], a[3])
                 [] copy = "compiled" -> editCreatureCompiledRequest(config, a[1], a[2], a[3])
                 [] copy = "callback" -> editCreatureCallbackRequest(config, a[1], a[2], a[3])), <<>>)

deleteCreature ==
    /\ HasRoom
    /\ \E a \in SomeArgumentsOf("deleteCreature") :
        Start("deleteCreature", a[1], a[2], Undefined,
              (CASE copy = "source" -> deleteCreatureRequest(config, a[1], a[2])
                 [] copy = "compiled" -> deleteCreatureCompiledRequest(config, a[1], a[2])
                 [] copy = "callback" -> deleteCreatureCallbackRequest(config, a[1], a[2])),
              <<>>)

\* A variant of createMemorySource that checks its input first: a
\* STATIC_TEXT source without content fails before any request is made.
createMemorySourceValidating ==
    /\ HasRoom
    /\ \E a \in SomeArgumentsOf("createMemorySource") :
        IF Get(a[3], "type") = Str("STATIC_TEXT") /\ ~Truthy(Get(a[3], "content"))
        THEN /\ result' = [op |-> "createMemorySource", settled |-> NoSettlement,
                           outcome |-> Threw("Error", "content is required"),
                           log |-> <<>>, fetches |-> 0]
             /\ UNCHANGED <<client, call, wire>>
        ELSE Start("createMemorySource", a[1], a[2], a[3],
                   (CASE copy = "source" -> createMemorySourceRequest(config, a[1], a[2], a[3])
                 [] copy = "compiled" -> createMemorySourceCompiledRequest(config, a[1], a[2], a[3])
                 [] copy = "callback" -> createMemorySourceCallbackRequest(config, a[1], a[2], a[3])),
                   <<>>)

createMemorySource ==
    /\ HasRoom
    /\ \E a \in SomeArgumentsOf("createMemorySource") :
        Start("createMemorySource", a[1], a[2], a[3],
              (CASE copy = "source" -> createMemorySourceRequest(config, a[1], a[2], a[3])
                 [] copy = "compiled" -> createMemorySourceCompiledRequest(config, a[1], a[2], a[3])
                 [] copy = "callback" -> createMemorySourceCallbackRequest(config, a[1], a[2], a[3])), <<>>)

chat ==
    /\ HasRoom
    /\ \E a \in SomeArgumentsOf("chat") :
        Start("chat", a[1], a[2], a[3],
              (CASE copy = "source" -> chatRequest(config, a[1], a[2], a[3])
                 [] copy = "compiled" -> chatCompiledRequest(config, a[1], a[2], a[3])
                 [] copy = "callback" -> chatCallbackRequest(config, a[1], a[2], a[3])), <<>>)

\* createCreature(params, options) of src/dist/creatures.js; the token of
\* the options, if it has one, is kept as the token of the call.
standaloneCreateCreature ==
    /\ HasRoom
    /\ \E params \in CreateCreatureParams,
          options \in {Undefined, Obj(<<>>),
                       Obj(<< <<"token", Str("jwt-session")>> >>)} :
        Start("standaloneCreateCreature",
              ToStr(IF Nullish(options) THEN Str("") ELSE OrElse(Get(options, "token"), Str(""))),
              "", params, standaloneCreateCreatureRequest(params, options), <<>>)

\* testEndpoint(), a method of the compiled copy and of the
\* credential-callback variant; src/index.ts has none.
testEndpoint ==
    /\ HasRoom
    /\ copy \in {"compiled", "callback"}
    /\ IF copy = "compiled"
       THEN Start("testEndpoint", "", "", Undefined,
                  testEndpointHttpRequest(config),
                  << <<"Testing HTTP endpoint:",
                        Replace(config.baseUrl, "https://", "http://")>> >>)
       ELSE Start("testEndpoint", "", "", Undefined,
                  testEndpointSigninRequest(config),
                  << <<"Testing endpoints on:", config.baseUrl>>,
                     <<"\nTesting email/password signin...">> >>)

(***************************************************************************)
(* The operations, from the response to the await of its body.  Every      *)
(* operation reads the body of every response, but deleteCreature, which   *)
(* reads the one of an error response only.                                *)
(***************************************************************************)
signUpResponds ==
    \E i \in Slots :
        /\ Awaiting(i, "signUp")
        /\ \E status \in Statuses : Read(i, status)

signInResponds ==
    \E i \in Slots :
        /\ Awaiting(i, "signIn")
        /\ \E status \in Statuses : Read(i, status)

getCreaturesResponds ==
    \E i \in Slots :
        /\ Awaiting(i, "getCreatures")
        /\ \E status \in Statuses : Read(i, status)

createCreatureResponds ==
    \E i \in Slots :
        /\ Awaiting(i, "createCreature")
        /\ \E status \in Statuses : Read(i, status)

editCreatureResponds ==
    \E i \in Slots :
        /\ Awaiting(i, "editCreature")
        /\ \E status \in Statuses : Read(i, status)

deleteCreatureResponds ==
    \E i \in Slots :
        /\ Awaiting(i, "deleteCreature")
        /\ \E status \in Statuses :
            /\ ~Ok([status |-> status])
            /\ Read(i, status)

createMemorySourceResponds ==
    \E i \in Slots :
        /\ Awaiting(i, "createMemorySource")
        /\ \E status \in Statuses : Read(i, status)

chatResponds ==
    \E i \in Slots :
        /\ Awaiting(i, "chat")
        /\ \E status \in Statuses : Read(i, status)

standaloneCreateCreatureResponds ==
    \E i \in Slots :
        /\ Awaiting(i, "standaloneCreateCreature")
        /\ \E status \in Statuses : Read(i, status)

\* Either probe of testEndpoint is answered: the method awaits the text.
testEndpointResponds ==
    \E i \in Slots :
        /\ Awaiting(i, "testEndpoint")
        /\ \E status \in Statuses : Read(i, status)

(***************************************************************************)
(* The operations, to their end: after a rejected fetch, or after the body *)
(* has arrived or has failed to.                                           *)
(***************************************************************************)
signUpSettles ==
    \E i \in Slots :
        \/ /\ Awaiting(i, "signUp")
           /\ \E r \in Rejections : Finish(i, r, (CASE copy = "source" -> signUpAfter(r, "")
                   [] copy = "compiled" -> signUpCompiledAfter(r, "")
                   [] copy = "callback" -> signUpCallbackAfter(r, "")), <<>>)
        \/ /\ Reading(i, "signUp")
           /\ \E r \in BodiesOf(i) : \E sm \in EngineMessages(r.text) :
                Finish(i, r, (CASE copy = "source" -> signUpAfter(r, sm)
                   [] copy = "compiled" -> signUpCompiledAfter(r, sm)
                   [] copy = "callback" -> signUpCallbackAfter(r, sm)), LogResponse(r))

signInSettles ==
    \E i \in Slots :
        \/ /\ Awaiting(i, "signIn")
           /\ \E r \in Rejections :
                CASE copy = "source" -> Finish(i, r, signInAfter(r, ""), <<>>)
                  [] copy = "compiled" -> Finish(i, r, signInCompiledAfter(r, ""), <<>>)
                  [] copy = "callback" -> Finish(i, r, signInCallbackAfter(r, ""), <<>>)
        \/ /\ Reading(i, "signIn")
           /\ \E r \in BodiesOf(i) : \E sm \in EngineMessages(r.text) :
                CASE copy = "source" ->
                       Finish(i, r, signInAfter(r, sm), <<>>)
                  [] copy = "compiled" ->
                       Finish(i, r, signInCompiledAfter(r, sm), LogResponse(r))
                  [] copy = "callback" ->
                       Finish(i, r, signInCallbackAfter(r, sm), LogResponse(r))

getCreaturesSettles ==
    \E i \in Slots :
        \/ /\ Awaiting(i, "getCreatures")
           /\ \E r \in Rejections : Finish(i, r, (CASE copy = "source" -> getCreaturesAfter(r, "")
                   [] copy = "compiled" -> getCreaturesCompiledAfter(r, "")
                   [] copy = "callback" -> getCreaturesCallbackAfter(r, "")), <<>>)
        \/ /\ Reading(i, "getCreatures")
           /\ \E r \in BodiesOf(i) : \E sm \in EngineMessages(r.text) :
                Finish(i, r, (CASE copy = "source" -> getCreaturesAfter(r, sm)
                   [] copy = "compiled" -> getCreaturesCompiledAfter(r, sm)
                   [] copy = "callback" -> getCreaturesCallbackAfter(r, sm)), <<>>)

createCreatureSettles ==
    \E i \in Slots :
        \/ /\ Awaiting(i, "createCreature")
           /\ \E r \in Rejections : Finish(i, r, (CASE copy = "source" -> createCreatureAfter(r, "")
                   [] copy = "compiled" -> createCreatureCompiledAfter(r, "")
                   [] copy = "callback" -> createCreatureCallbackAfter(r, "")), <<>>)
        \/ /\ Reading(i, "createCreature")
           /\ \E r \in BodiesOf(i) : \E sm \in EngineMessages(r.text) :
                Finish(i, r, (CASE copy = "source" -> createCreatureAfter(r, sm)
                   [] copy = "compiled" -> createCreatureCompiledAfter(r, sm)
                   [] copy = "callback" -> createCreatureCallbackAfter(r, sm)), <<>>)

editCreatureSettles ==
    \E i \in Slots :
        \/ /\ Awaiting(i, "editCreature")
           /\ \E r \in Rejections : Finish(i, r, (CASE copy = "source" -> editCreatureAfter(r, "")
                   [] copy = "compiled" -> editCreatureCompiledAfter(r, "")
                   [] copy = "callback" -> editCreatureCallbackAfter(r, "")), <<>>)
        \/ /\ Reading(i, "editCreature")
           /\ \E r \in BodiesOf(i) : \E sm \in EngineMessages(r.text) :
                Finish(i, r, (CASE copy = "source" -> editCreatureAfter(r, sm)
                   [] copy = "compiled" -> editCreatureCompiledAfter(r, sm)
                   [] copy = "callback" -> editCreatureCallbackAfter(r, sm)), <<>>)

\* deleteCreature is done with a 2xx response when fetch resolves: the body
\* the server sends with it, whatever it is, is not read.
deleteCreatureSettles ==
    \E i \in Slots :
        \/ /\ Awaiting(i, "deleteCreature")
           /\ \E r \in Rejections : Finish(i, r, (CASE copy = "source" -> deleteCreatureAfter(r, "")
                   [] copy = "compiled" -> deleteCreatureCompiledAfter(r, "")
                   [] copy = "callback" -> deleteCreatureCallbackAfter(r, "")), <<>>)
        \/ /\ Awaiting(i, "deleteCreature")
           /\ \E r \in [kind : {"response"},
                       status : {s \in Statuses : Ok([status |-> s])},
                       text : TextsFor(i)] :
                Finish(i, r, (CASE copy = "source" -> deleteCreatureAfter(r, "")
                   [] copy = "compiled" -> deleteCreatureCompiledAfter(r, "")
                   [] copy = "callback" -> deleteCreatureCallbackAfter(r, "")), <<>>)
        \/ /\ Reading(i, "deleteCreature")
           /\ \E r \in BodiesOf(i) : \E sm \in EngineMessages(r.text) :
                Finish(i, r, (CASE copy = "source" -> deleteCreatureAfter(r, sm)
                   [] copy = "compiled" -> deleteCreatureCompiledAfter(r, sm)
                   [] copy = "callback" -> deleteCreatureCallbackAfter(r, sm)), <<>>)

createMemorySourceSettles ==
    \E i \in Slots :
        \/ /\ Awaiting(i, "createMemorySource")
           /\ \E r \in Rejections : Finish(i, r, (CASE copy = "source" -> createMemorySourceAfter(r, "")
                   [] copy = "compiled" -> createMemorySourceCompiledAfter(r, "")
                   [] copy = "callback" -> createMemorySourceCallbackAfter(r, "")), <<>>)
        \/ /\ Reading(i, "createMemorySource")
           /\ \E r \in BodiesOf(i) : \E sm \in EngineMessages(r.text) :
                Finish(i, r, (CASE copy = "source" -> createMemorySourceAfter(r, sm)
                   [] copy = "compiled" -> createMemorySourceCompiledAfter(r, sm)
                   [] copy = "callback" -> createMemorySourceCallbackAfter(r, sm)), <<>>)

chatSettles ==
    \E i \in Slots :
        \/ /\ Awaiting(i, "chat")
           /\ \E r \in Rejections : Finish(i, r, (CASE copy = "source" -> chatAfter(r, "")
                   [] copy = "compiled" -> chatCompiledAfter(r, "")
                   [] copy = "callback" -> chatCallbackAfter(r, "")), <<>>)
        \/ /\ Reading(i, "chat")
           /\ \E r \in BodiesOf(i) : \E sm \in EngineMessages(r.text) :
                Finish(i, r, (CASE copy = "source" -> chatAfter(r, sm)
                   [] copy = "compiled" -> chatCompiledAfter(r, sm)
                   [] copy = "callback" -> chatCallbackAfter(r, sm)), <<>>)

standaloneCreateCreatureSettles ==
    \E i \in Slots :
        \/ /\ Awaiting(i, "standaloneCreateCreature")
           /\ \E r \in Rejections :
                Finish(i, r, standaloneCreateCreatureAfter(r, ""), <<>>)
        \/ /\ Reading(i, "standaloneCreateCreature")
           /\ \E r \in BodiesOf(i) : \E sm \in EngineMessages(r.text) :
                Finish(i, r, standaloneCreateCreatureAfter(r, sm), <<>>)

\* The text of the first probe of testEndpoint has arrived: it is logged
\* and the second probe goes out.
testEndpointProbesAgain ==
    \E i \in Slots :
        /\ Reading(i, "testEndpoint")
        /\ call[i].fetches = 1
        /\ \E r \in BodiesOf(i) :
            /\ r.kind = "response"
            /\ IF copy = "compiled"
               THEN FetchAgain(i, testEndpointHttpsRequest(config),
                               LogProbe("HTTP", r)
                               \o << <<"\nTesting HTTPS endpoint:",
                                       Replace(config.baseUrl, "http://",
                                               "https://")>> >>)
               ELSE FetchAgain(i, testEndpointOauthRequest(config),
                               LogProbe("Signin", r)
                               \o << <<"\nTesting Google OAuth...">> >>)

\* testEndpoint returns: after the text of the second probe has arrived,
\* or from its catch, which logs a rejected fetch and a body that fails
\* with console.error('Test failed:', error).
testEndpointSettles ==
    \E i \in Slots :
        \/ /\ Awaiting(i, "testEndpoint")
           /\ \E r \in Rejections :
                Finish(i, r, Returned(Undefined),
                       << <<"Test failed:", Rejection(r).name,
                            Rejection(r).message>> >>)
        \/ /\ Reading(i, "testEndpoint")
           /\ \E r \in BodiesOf(i) :
                /\ r.kind # "response"
                /\ Finish(i, r, Returned(Undefined),
                       << <<"Test failed:", Rejection(r).name,
                            Rejection(r).message>> >>)
        \/ /\ Reading(i, "testEndpoint")
           /\ call[i].fetches = 2
           /\ \E r \in BodiesOf(i) :
                /\ r.kind = "response"
                /\ Finish(i, r, Returned(Undefined),
                          LogProbe(IF copy = "compiled" THEN "HTTPS" ELSE "OAuth", r))

Next ==
    \/ signUp
    \/ signIn
    \/ getCreatures
    \/ createCreature
    \/ editCreature
    \/ deleteCreature
    \/ createMemorySource
    \/ chat
    \/ standaloneCreateCreature
    \/ testEndpoint
    \/ signUpResponds
    \/ signInResponds
    \/ getCreaturesResponds
    \/ createCreatureResponds
    \/ editCreatureResponds
    \/ deleteCreatureResponds
    \/ createMemorySourceResponds
    \/ chatResponds
    \/ standaloneCreateCreatureResponds
    \/ testEndpointResponds
    \/ signUpSettles
    \/ signInSettles
    \/ getCreaturesSettles
    \/ createCreatureSettles
    \/ editCreatureSettles
    \/ deleteCreatureSettles
    \/ createMemorySourceSettles
    \/ chatSettles
    \/ standaloneCreateCreatureSettles
    \/ testEndpointProbesAgain
    \/ testEndpointSettles

Spec == Init /\ [][Next]_vars

(***************************************************************************)
(* What each method logs, and the invocation at its await of fetch.        *)
(***************************************************************************)
\* Which methods log: signUp in every copy, signIn in the two copies of
\* src/dist/index.js.
Logs(cp, op) == op = "signUp" \/ (op = "signIn" /\ cp # "source")

\* The invocation of op on a client of copy cp, suspended at its await of
\* fetch.
Invoked(cp, op, args) ==
    [pc |-> "awaiting", op |-> op, token |-> args[1], id |-> args[2],
     params |-> args[3],
     log |-> IF Logs(cp, op)
             THEN LogRequest(RequestOf(cp, op, config, args[1], args[2], args[3]).url)
             ELSE <<>>,
     fetches |-> 1, status |-> 0]

(***************************************************************************)
(* The requests of the methods, for all their arguments.  A method is      *)
(* called with arguments drawn from the whole of ArgumentsOf and runs to    *)
(* its await of fetch; what follows the await does not depend on them.     *)
(***************************************************************************)
InitRequests ==
    /\ given \in ConfigInputs
    /\ config = Construct(given)
    /\ initLog = ConstructLog(Construct(given))
    /\ copy \in Copies
    /\ \E op \in ClassOps : \E args \in ArgumentsOf(op) :
          call = [i \in Slots |->
                    IF i = 1
                    THEN [pc |-> "called", op |-> op, token |-> args[1],
                          id |-> args[2], params |-> args[3], log |-> <<>>,
                          fetches |-> 0, status |-> 0]
                    ELSE Idle]
    /\ wire = [i \in Slots |-> NoRequest]
    /\ result = NoResult

\* The method that was called runs up to its await of fetch.
runsToAwait ==
    \E i \in Slots :
        /\ call[i].pc = "called"
        /\ call' = [call EXCEPT ![i] =
                      Invoked(copy, call[i].op,
                              <<call[i].token, call[i].id, call[i].params>>)]
        /\ wire' = [wire EXCEPT ![i] =
                      RequestOf(copy, call[i].op, config,
                                call[i].token, call[i].id, call[i].params)]
        /\ result' = NoResult
        /\ UNCHANGED client

SpecRequests == InitRequests /\ [][runsToAwait]_vars

(***************************************************************************)
(* Vocabulary of the properties.                                           *)
(***************************************************************************)
AuthenticatedOps == ClassOps \ {"signUp", "signIn"}

\* Invocation i has handed its request to fetch and awaits the answer.
Sent(i) == call[i].pc = "awaiting"

\* An invocation has ended on an HTTP response whose body it was given (or,
\* for a deleteCreature answered 2xx, did not ask for).
Answered == result.op \in AllOps /\ result.settled.kind = "response"
HttpError == Answered /\ ~Ok(result.settled)
HttpSuccess == Answered /\ Ok(result.settled)
\* The decoded body of the response, when it is JSON.
BodyIsJson == IsJson(result.settled.text)
Body == JsonParse(result.settled.text)
Failed == result.outcome.kind = "threw"
Succeeded == result.outcome.kind = "returned"

\* Structural equality of two values: objects are compared as maps from
\* their keys, whatever the order of their properties.
RECURSIVE StructEq(_, _)
StructEq(a, b) ==
    IF a.t # b.t THEN FALSE
    ELSE IF a.t = "object"
         THEN /\ Keys(a) = Keys(b)
              /\ \A k \in Keys(a) : StructEq(Get(a, k), Get(b, k))
         ELSE a = b

\* C1: whenever the server answers non-2xx with a JSON body {message: X},
\* X not empty, the operation fails with the message X itself.
C1_ServerMessageIsTheFailure ==
    (/\ HttpError
     /\ BodyIsJson
     /\ Body.t = "object"
     /\ Get(Body, "message").t = "string"
     /\ Get(Body, "message").s # "")
    => (Failed /\ result.outcome.message = Get(Body, "message").s)

\* C2: whenever the server answers non-2xx with a body that is not JSON,
\* the operation fails with a message that contains the status code and
\* the raw body.
C2_StatusAndBodyInMessage ==
    (HttpError /\ ~BodyIsJson)
    => (/\ Failed
        /\ Contains(result.outcome.message, ToString(result.settled.status))
        /\ Contains(result.outcome.message, result.settled.text))

\* C3: whenever the server answers 2xx with a body that is not JSON, every
\* operation that decodes a result fails, with a message that includes the
\* raw body and is not the message of an HTTP error.
C3_MalformedSuccessBodyNamed ==
    (HttpSuccess /\ result.op # "deleteCreature" /\ ~BodyIsJson)
    => (/\ Failed
        /\ Contains(result.outcome.message, result.settled.text)
        /\ ~StartsWith(result.outcome.message, "Server returned "))

\* The default message each operation names in its source.
HardcodedDefault ==
    [op \in {"signUp", "signIn", "createCreature", "editCreature",
             "deleteCreature", "standaloneCreateCreature"} |->
       CASE op = "signUp" -> "Failed to sign up"
         [] op = "signIn" -> "Failed to sign in"
         [] op = "createCreature" -> "Failed to create creature"
         [] op = "editCreature" -> "Failed to update creature"
         [] op = "deleteCreature" -> "Failed to delete creature"
         [] op = "standaloneCreateCreature" -> "Failed to create creature"]

\* C4: whenever the server answers non-2xx with a JSON object that has no
\* message, the operation fails with its hardcoded default message, never
\* with an empty one.
C4_DefaultMessageWhenAbsent ==
    (/\ HttpError
     /\ BodyIsJson
     /\ Body.t = "object"
     /\ "message" \notin Keys(Body))
    => (/\ Failed
        /\ result.outcome.message # ""
        /\ (result.op \in DOMAIN HardcodedDefault
              => result.outcome.message = HardcodedDefault[result.op]))

\* The request of invocation i has the header h.
HasHeader(i, h) == h \in DOMAIN wire[i].headers

\* C5: the request of every authenticated operation carries
\* Authorization: Bearer <credential> with the caller's credential as
\* passed, API key or not, and never the configured apiKey in its place.
C5_BearerCredentialVerbatim ==
    \A i \in Slots :
        (Sent(i) /\ call[i].op \in AuthenticatedOps)
        => (/\ HasHeader(i, "Authorization")
            /\ wire[i].headers["Authorization"] = "Bearer " \o call[i].token)

\* An authenticated operation is in flight with an API key as its
\* credential, on a client configured with another API key.
C5_Witness ==
    \E i \in Slots :
        /\ Sent(i)
        /\ call[i].op = "chat"
        /\ StartsWith(call[i].token, "sk-")
        /\ config.apiKey # ""
        /\ config.apiKey # call[i].token
        /\ wire[i].headers["Authorization"] = "Bearer sk-creature"

\* The header rule of C6 for the request of invocation i.
ApiKeyRule(i) ==
    IF config.apiKey # ""
    THEN HasHeader(i, "Authorization")
         /\ wire[i].headers["Authorization"] = "Bearer " \o config.apiKey
    ELSE ~HasHeader(i, "Authorization")

\* C6 as claimed: in every copy, the request of signUp and of signIn
\* carries Authorization: Bearer <apiKey> if the configured apiKey is not
\* empty, and no Authorization header if it is.
C6_ApiKeyHeaderInEveryCopy ==
    \A i \in Slots :
        (Sent(i) /\ call[i].op \in {"signUp", "signIn"}) => ApiKeyRule(i)

\* C6 as amended: the rule holds for signUp in every copy and for signIn in
\* src/index.ts and the compiled copy; the signIn of the credential-callback
\* variant never carries an Authorization header.
C6_ApiKeyHeaderExceptCallbackSignIn ==
    \A i \in Slots :
        (Sent(i) /\ call[i].op \in {"signUp", "signIn"})
        => IF call[i].op = "signIn" /\ copy = "callback"
           THEN ~HasHeader(i, "Authorization")
           ELSE ApiKeyRule(i)

\* The credential-callback signIn is in flight on a client with an apiKey.
C6_Witness ==
    \E i \in Slots :
        /\ Sent(i)
        /\ call[i].op = "signIn"
        /\ copy = "callback"
        /\ config.apiKey = "sk-config"
        /\ DOMAIN wire[i].headers = {"Content-Type"}

\* C7: chat with a bare string s sends the request that chat with
\* {message: s} sends, with the body {"message": s}, the empty s included.
C7_ChatStringIsMessageObject ==
    \A i \in Slots :
        (Sent(i) /\ call[i].op = "chat" /\ call[i].params.t = "string")
        => (/\ wire[i] = chatRequest(config, call[i].token, call[i].id,
                                     Obj(<< <<"message", call[i].params>> >>))
            /\ wire[i].body.kind = "json"
            /\ wire[i].body.text = "{\"message\":\"" \o call[i].params.s \o "\"}")

\* chat is in flight with the empty string as its message.
C7_Witness ==
    \E i \in Slots :
        /\ Sent(i)
        /\ call[i].op = "chat"
        /\ call[i].params = Str("")
        /\ wire[i].body.text = "{\"message\":\"\"}"

\* The names of the fields of the form invocation i sends.
FormFields(i) == {wire[i].body.form[n][1] : n \in 1..Len(wire[i].body.form)}
FileFields == {"fileUrl", "fileName", "fileSize"}

\* C8: whatever createMemorySource is given, its request never carries
\* content together with a file field; a STATIC_TEXT request carries only
\* name, type, content and a DOCUMENT request only name, type and the file
\* fields.
C8_MemorySourceFieldsByType ==
    \A i \in Slots :
        (Sent(i) /\ call[i].op = "createMemorySource")
        => (/\ wire[i].body.kind = "form"
            /\ ~("content" \in FormFields(i) /\ FormFields(i) \cap FileFields # {})
            /\ (Get(call[i].params, "type") = Str("STATIC_TEXT")
                  => FormFields(i) \subseteq {"name", "type", "content"})
            /\ (Get(call[i].params, "type") = Str("DOCUMENT")
                  => FormFields(i) \subseteq {"name", "type"} \cup FileFields))

\* createMemorySource is in flight for a STATIC_TEXT source given content,
\* a file and every file field, and for it only the content is sent.
C8_Witness ==
    \E i \in Slots :
        /\ Sent(i)
        /\ call[i].op = "createMemorySource"
        /\ Get(call[i].params, "type") = Str("STATIC_TEXT")
        /\ Truthy(Get(call[i].params, "content"))
        /\ Truthy(Get(call[i].params, "file"))
        /\ \A k \in FileFields : Truthy(Get(call[i].params, k))
        /\ FormFields(i) = {"name", "type", "content"}

\* The body of the response is exactly {token, user: {id, email}}.
BodyIsTokenAndUser ==
    /\ BodyIsJson
    /\ Body.t = "object"
    /\ Keys(Body) = {"token", "user"}
    /\ Get(Body, "user").t = "object"
    /\ Keys(Get(Body, "user")) = {"id", "email"}

\* v has the properties of b, with the values of b but for the token.
EqualExceptToken(v, b) ==
    /\ v.t = "object"
    /\ Keys(v) = Keys(b)
    /\ \A k \in Keys(b) \ {"token"} : StructEq(Get(v, k), Get(b, k))

\* The value the credential-callback signIn returns for the body b: the
\* token and the user's id and email of b, and a user that also has the
\* properties name and image, undefined when b has none.
CallbackShape(v, b) ==
    /\ v.t = "object"
    /\ Keys(v) = {"token", "user"}
    /\ Get(v, "token") = Get(b, "token")
    /\ Get(v, "user").t = "object"
    /\ Keys(Get(v, "user")) = {"id", "email", "name", "image"}
    /\ \A k \in {"id", "email", "name", "image"} :
          Get(Get(v, "user"), k) = Get(Get(b, "user"), k)

\* C9 as claimed: on a 2xx response with the body {token, user: {id,
\* email}}, signUp returns a value equal to the body and signIn, in every
\* copy, a value equal to the body but possibly for the token.
C9_SignInResultIsTheBody ==
    (HttpSuccess /\ result.op \in {"signUp", "signIn"} /\ BodyIsTokenAndUser)
    => (/\ Succeeded
        /\ (result.op = "signUp" => StructEq(result.outcome.value, Body))
        /\ (result.op = "signIn" => EqualExceptToken(result.outcome.value, Body)))

\* C9 as amended: the same, except that the value the credential-callback
\* signIn returns has a user with two more properties, name and image,
\* whose value is undefined.
C9_SignInResultIsTheBodyButCallbackUser ==
    (HttpSuccess /\ result.op \in {"signUp", "signIn"} /\ BodyIsTokenAndUser)
    => (/\ Succeeded
        /\ (result.op = "signUp" => StructEq(result.outcome.value, Body))
        /\ (result.op = "signIn" =>
              IF copy = "callback"
              THEN CallbackShape(result.outcome.value, Body)
              ELSE EqualExceptToken(result.outcome.value, Body)))

\* The credential-callback signIn has returned for a {token, user} body,
\* with a user that has a property the body's user has not.
C9_Witness ==
    /\ HttpSuccess
    /\ result.op = "signIn"
    /\ copy = "callback"
    /\ BodyIsTokenAndUser
    /\ Succeeded
    /\ "image" \in Keys(Get(result.outcome.value, "user"))
    /\ Get(Get(result.outcome.value, "user"), "email") = Email

\* The token signIn mints from the body of the response.
Minted ==
    Str(jwtSign(Get(Get(Body, "user"), "id"), Get(Get(Body, "user"), "email"),
                "iloveburritosbaby", "1h"))

\* C10 as claimed: whenever the 2xx response of signIn contains a token,
\* the token signIn returns is that token.
C10_ServerTokenReturned ==
    (/\ HttpSuccess
     /\ result.op = "signIn"
     /\ Succeeded
     /\ BodyIsJson
     /\ "token" \in Keys(Body))
    => Get(result.outcome.value, "token") = Get(Body, "token")

\* C10 as amended: the signIn of src/index.ts and of the compiled copy
\* returns the token it mints itself, whether or not the response contains
\* one; the signIn of the credential-callback variant never mints and
\* returns the token of the response.
C10_MintedUnlessCallback ==
    (HttpSuccess /\ result.op = "signIn" /\ Succeeded)
    => IF copy = "callback"
       THEN Get(result.outcome.value, "token") = Get(Body, "token")
       ELSE Get(result.outcome.value, "token") = Minted

\* The signIn of src/index.ts has returned a minted token although the
\* response contained the server's.
C10_Witness ==
    /\ HttpSuccess
    /\ result.op = "signIn"
    /\ copy = "source"
    /\ Succeeded
    /\ Get(Body, "token") = Str(ServerToken)
    /\ Get(result.outcome.value, "token") = Minted
    /\ Minted # Str(ServerToken)

\* C11: whenever deleteCreature is answered 2xx, it resolves with undefined
\* and no error, whatever the body of the response is: an empty body, an
\* error page or a JSON document is not read.
C11_DeleteIgnoresSuccessBody ==
    (HttpSuccess /\ result.op = "deleteCreature")
    => (Succeeded /\ result.outcome.value = Undefined)

\* deleteCreature has resolved with undefined on a 2xx response whose body
\* is empty.
C11_Witness ==
    /\ HttpSuccess
    /\ result.op = "deleteCreature"
    /\ result.settled.text = ""
    /\ Succeeded
    /\ result.outcome.value = Undefined

\* Every public method of the client: the operations and testEndpoint.
PublicOps == AllOps \cup {"testEndpoint"}

\* C12 as claimed: every invocation of a public operation has issued
\* exactly one request when it ends, and one while it is in flight.
C12_ExactlyOneRequest ==
    /\ \A i \in Slots :
           call[i].pc # "idle" => call[i].fetches = 1
    /\ result.op \in PublicOps => result.fetches = 1

\* C12 as amended: every invocation of an operation other than testEndpoint
\* issues exactly one request, whatever its outcome; testEndpoint issues a
\* second request after the body of the first answer has arrived, and only
\* one when its first fetch is rejected or the body of the first answer
\* fails.  An invocation has a request on the wire exactly while it awaits
\* fetch.
C12_OneRequestButTestEndpointTwo ==
    /\ \A i \in Slots :
           /\ Sent(i) <=> wire[i] # NoRequest
           /\ (call[i].pc # "idle" /\ call[i].op \in AllOps) => call[i].fetches = 1
           /\ (call[i].pc # "idle" /\ call[i].op = "testEndpoint")
              => call[i].fetches \in {1, 2}
    /\ result.op \in AllOps => result.fetches = 1
    /\ result.op = "testEndpoint"
       => \/ result.fetches = 2
          \/ result.fetches = 1 /\ result.settled.kind # "response"

\* testEndpoint of the compiled copy has returned after two requests, the
\* first of which was answered with an HTTP error.
C12_Witness ==
    /\ result.op = "testEndpoint"
    /\ copy = "compiled"
    /\ result.fetches = 2
    /\ Succeeded
    /\ result.log[2] = <<"HTTP Response status:", "500">>

\* C13: no step of any operation changes the client: config.baseUrl and
\* config.apiKey stay what the constructor made of its argument, and so
\* nothing an operation received (a token, creature data, a session id) is
\* kept in the client for a later call.
C13_ClientStateNeverChanges ==
    [][/\ config' = config
       /\ config' = Construct(given')
       /\ copy' = copy]_vars

\* signIn has returned a token and the client, constructed without an
\* apiKey, still has the empty apiKey of its construction.
C13_Witness ==
    /\ result.op = "signIn"
    /\ Succeeded
    /\ Get(result.outcome.value, "token").t = "string"
    /\ given.apiKey = Undefined
    /\ config.apiKey = ""

\* The request an invocation of a method of the class sends when it runs
\* alone, and the outcomes it may have alone on what its transport gave it.
RequestAlone(c) == RequestOf(copy, c.op, config, c.token, c.id, c.params)
OutcomesAlone(res) ==
    { OutcomeOf(copy, res.op, res.settled, sm) :
        sm \in EngineMessages(res.settled.text) }

\* C14: with several invocations in flight on one client, under every
\* interleaving of their calls, responses and bodies, the request of each
\* is the one it sends when run alone (a function of its own arguments and
\* the config), each has issued one request, and the outcome of each is one
\* it has alone on the response it was itself given.
C14_ConcurrentCallsIndependent ==
    /\ \A i \in Slots :
           (Sent(i) /\ call[i].op \in ClassOps)
           => (wire[i] = RequestAlone(call[i]) /\ call[i].fetches = 1)
    /\ result.op \in ClassOps
       => (result.outcome \in OutcomesAlone(result) /\ result.fetches = 1)
    /\ config = Construct(given)

\* A chat is in flight with a session token, its request intact, and in
\* the last step a getCreatures made next to it, answered with an HTTP
\* error, has failed.
C14_Witness ==
    \E i \in Slots :
        /\ Sent(i)
        /\ call[i].op = "chat"
        /\ call[i].token = "jwt-session"
        /\ wire[i].headers["Authorization"] = "Bearer jwt-session"
        /\ result.op = "getCreatures"
        /\ result.settled.kind = "response"
        /\ result.settled.status = 500
        /\ result.outcome.kind = "threw"

\* The fetch of the invocation that has ended was rejected.
Rejected ==
    result.op \in AllOps /\ result.settled.kind \in {"rejectError", "rejectOther"}

\* C15 as claimed: whenever fetch is rejected, the operation fails with
\* the rejection value itself, unchanged, after its one request.
C15_RejectionUnchanged ==
    Rejected
    => (/\ Failed
        /\ result.outcome = FetchRejection(result.settled)
        /\ result.fetches = 1)

\* C15 as amended: whenever fetch is rejected the operation fails after its
\* one request; it fails with the rejection value itself when that is an
\* Error, and in the standalone createCreature also when it is not; a
\* method of the class replaces a rejection value that is no Error by an
\* Error with its own "An unexpected error occurred ..." message.
C15_RejectionUnchangedIfError ==
    Rejected
    => (/\ Failed
        /\ result.fetches = 1
        /\ IF result.settled.kind = "rejectError"
              \/ result.op = "standaloneCreateCreature"
           THEN result.outcome = FetchRejection(result.settled)
           ELSE /\ result.outcome.name = "Error"
                /\ StartsWith(result.outcome.message,
                              "An unexpected error occurred "))

\* The fetch of getCreatures was rejected with a value that is no Error and
\* getCreatures has failed with an Error of its own.
C15_Witness ==
    /\ result.op = "getCreatures"
    /\ result.settled.kind = "rejectOther"
    /\ Failed
    /\ result.outcome.name = "Error"
    /\ result.outcome.message = "An unexpected error occurred while fetching creatures"
    /\ result.outcome # FetchRejection(result.settled)

\* C16: every step an invocation of an operation takes once its fetch
\* promise has settled either suspends it at the read of the body of the
\* response, nothing returned yet, or takes it to its end in exactly one of
\* two ways: it returns, and then the response was 2xx and (but for
\* deleteCreature) its body decoded, or it throws an error and returns no
\* value.  A non-2xx response, a rejected fetch and a body that fails never
\* end in a returned value.
C16_ReturnsOn2xxOrFails ==
    [][\A i \in Slots :
         (call[i].pc # "idle" /\ call[i].op \in AllOps /\ call'[i] # call[i])
         => \/ /\ call[i].pc = "awaiting"
               /\ call'[i].pc = "reading"
               /\ call'[i].status \in Statuses
               /\ result' = NoResult
            \/ /\ call'[i].pc = "idle"
               /\ result'.op = call[i].op
               /\ result'.outcome.kind \in {"returned", "threw"}
               /\ result'.outcome.kind = "returned"
                  => /\ result'.settled.kind = "response"
                     /\ Ok(result'.settled)
                     /\ result'.outcome.name = "" /\ result'.outcome.message = ""
                     /\ call[i].op # "deleteCreature" => IsJson(result'.settled.text)
               /\ result'.outcome.kind = "threw"
                  => result'.outcome.value = Undefined]_vars

\* createCreature was answered 500 with a body that is a JSON document and
\* has failed, returning nothing.
C16_Witness ==
    /\ result.op = "createCreature"
    /\ HttpError
    /\ result.settled.status = 500
    /\ BodyIsJson
    /\ Body = Obj(<< <<"user", ServerUser>> >>)
    /\ Failed
    /\ result.outcome.value = Undefined

\* The default base URL the documentation of the configuration names.
DocumentedDefaultBaseUrl == "http://localhost:3000"

\* C17: whenever a client constructed without a baseUrl has a request of a
\* method of the class in flight, the URL of the request starts with the
\* documented default, http://localhost:3000.
C17_DefaultBaseUrlIsLocalhost ==
    \A i \in Slots :
        (/\ given.baseUrl = Undefined
         /\ Sent(i)
         /\ call[i].op \in ClassOps)
        => StartsWith(wire[i].url, DocumentedDefaultBaseUrl \o "/api/")

\* The method and the path of each operation in the table of operations;
\* id is the id the caller passed.
TableMethod(op) ==
    CASE op = "getCreatures" -> "GET"
      [] op = "editCreature" -> "PUT"
      [] op = "deleteCreature" -> "DELETE"
      [] OTHER -> "POST"
TablePaths(op, id) ==
    CASE op = "signUp" -> {"/api/auth/signup"}
      [] op = "signIn" -> {"/api/auth/signin", "/api/auth/callback/credentials"}
      [] op = "getCreatures" -> {"/api/creatures"}
      [] op = "createCreature" -> {"/api/creatures"}
      [] op = "editCreature" -> {"/api/creatures/" \o id}
      [] op = "deleteCreature" -> {"/api/creatures/" \o id}
      [] op = "createMemorySource" -> {"/api/creatures/" \o id \o "/memory-sources"}
      [] op = "chat" -> {"/api/creatures/" \o id \o "/chat"}

\* C18: whenever an operation of the class has its request in flight, the
\* method of the request is the one of the table and its URL is the
\* configured baseUrl followed by the path of the table, with the id the
\* caller passed; signIn posts to the sign-in path or to the credential
\* callback.
C18_MethodAndPathOfTheTable ==
    \A i \in Slots :
        (Sent(i) /\ call[i].op \in ClassOps)
        => /\ wire[i].method = TableMethod(call[i].op)
           /\ \E path \in TablePaths(call[i].op, call[i].id) :
                  wire[i].url = config.baseUrl \o path

\* editCreature is in flight for the creature c2 on a client with a
\* configured baseUrl: a PUT to that creature's path under the baseUrl.
C18_Witness ==
    \E i \in Slots :
        /\ Sent(i)
        /\ call[i].op = "editCreature"
        /\ call[i].id = "c2"
        /\ given.baseUrl = Str("http://localhost:3000")
        /\ wire[i].method = "PUT"
        /\ wire[i].url = "http://localhost:3000/api/creatures/c2"

\* Base64 of a sequence of bytes (RFC 4648, with padding).
Base64Alphabet ==
    "ABCDEFGHIJKLMNOPQRSTUVWXYZabcdefghijklmnopqrstuvwxyz0123456789+/"
Base64Char(n) == SubSeq(Base64Alphabet, n + 1, n + 1)
RECURSIVE Base64(_)
Base64(bytes) ==
    IF Len(bytes) = 0 THEN ""
    ELSE IF Len(bytes) = 1
    THEN Base64Char(bytes[1] \div 4) \o Base64Char((bytes[1] % 4) * 16) \o "=="
    ELSE IF Len(bytes) = 2
    THEN Base64Char(bytes[1] \div 4)
         \o Base64Char((bytes[1] % 4) * 16 + bytes[2] \div 16)
         \o Base64Char((bytes[2] % 16) * 4) \o "="
    ELSE Base64Char(bytes[1] \div 4)
         \o Base64Char((bytes[1] % 4) * 16 + bytes[2] \div 16)
         \o Base64Char((bytes[2] % 16) * 4 + bytes[3] \div 64)
         \o Base64Char(bytes[3] % 64)
         \o Base64(SubSeq(bytes, 4, Len(bytes)))

\* The raw content of the file the caller hands over: the bytes of "%PDF".
FileContent(file) == <<37, 80, 68, 70>>

\* The request body carries the text: in its JSON text or in the value of
\* one of its form fields.
CarriesInline(req, text) ==
    \/ Contains(req.body.text, text)
    \/ \E n \in 1..Len(req.body.form) : Contains(req.body.form[n][2], text)

\* C19: whenever createMemorySource is given a file and no fileUrl, the
\* request in flight carries the base64 encoding of the file's content.
C19_FileSentBase64Inline ==
    \A i \in Slots :
        (/\ Sent(i)
         /\ call[i].op = "createMemorySource"
         /\ Get(call[i].params, "file").t = "file"
         /\ ~Truthy(Get(call[i].params, "fileUrl")))
        => CarriesInline(wire[i], Base64(FileContent(Get(call[i].params, "file"))))

\* The remote capabilities, each with the method and the paths of its
\* request in the table of operations, for the ids of the model.
CapabilityCalls ==
    [signUp |-> {<<"POST", "/api/auth/signup">>},
     signIn |-> {<<"POST", "/api/auth/signin">>,
                 <<"POST", "/api/auth/callback/credentials">>},
     listCreatures |-> {<<"GET", "/api/creatures">>},
     createCreature |-> {<<"POST", "/api/creatures">>},
     editCreature |-> {<<"PUT", "/api/creatures/" \o c>> : c \in Ids},
     deleteCreature |-> {<<"DELETE", "/api/creatures/" \o c>> : c \in Ids},
     createMemorySource |->
         {<<"POST", "/api/creatures/" \o c \o "/memory-sources">> : c \in Ids},
     listMemorySources |->
         {<<"GET", "/api/creatures/" \o c \o "/memory-sources">> : c \in Ids},
     editMemorySource |->
         {<<"PUT", "/api/creatures/" \o c \o "/memory-sources/" \o m>> :
              c \in Ids, m \in Ids},
     deleteMemorySource |->
         {<<"DELETE", "/api/creatures/" \o c \o "/memory-sources/" \o m>> :
              c \in Ids, m \in Ids},
     chat |-> {<<"POST", "/api/creatures/" \o c \o "/chat">> : c \in Ids}]
Capabilities == DOMAIN CapabilityCalls
\* The request is one of the capability.
IsCallOf(cap, req) ==
    \E mp \in CapabilityCalls[cap] :
        req.method = mp[1] /\ req.url = config.baseUrl \o mp[2]

\* The client has a call that sends a request of the capability.
Callable(cap) ==
    ENABLED (/\ Next
             /\ \E i \in Slots :
                   /\ call[i].pc = "idle"
                   /\ call'[i].pc = "awaiting"
                   /\ IsCallOf(cap, wire'[i]))

\* The client can be called: it has room for the invocation, whatever else
\* is in flight, and no invocation has just ended.
CanBeCalled == HasRoom /\ result = NoResult

\* C20: the client has, for each of the eleven capabilities, a call that
\* sends the request of that capability.
C20_ElevenCapabilitiesCallable ==
    CanBeCalled => \A cap \in Capabilities : Callable(cap)

\* The object o without its property k: what the caller passes when it
\* does not set k.
RECURSIVE WithoutProps(_, _)
WithoutProps(f, k) ==
    IF Len(f) = 0 THEN <<>>
    ELSE (IF f[1][1] = k THEN <<>> ELSE <<f[1]>>) \o WithoutProps(Tail(f), k)
Without(o, k) == Obj(WithoutProps(o.f, k))

\* The caller of invocation i has set property k of the params to a falsy
\* value.
SetFalsy(i, k) == k \in Keys(call[i].params) /\ ~Truthy(Get(call[i].params, k))

\* The request of invocation i is the one the operation sends for the same
\* arguments with property k of the params not set.
AsIfNotSet(i, k) ==
    wire[i] = IF call[i].op = "editCreature"
              THEN editCreatureRequest(config, call[i].token, call[i].id,
                                       Without(call[i].params, k))
              ELSE createMemorySourceRequest(config, call[i].token, call[i].id,
                                             Without(call[i].params, k))

\* C21 as claimed: whenever createMemorySource or editCreature is in flight
\* with a field of its params set to a falsy value (an empty name, an empty
\* content, a zero fileSize), the request is the one of the same call with
\* that field not set.
C21_FalsyFieldsDropped ==
    \A i \in Slots :
        (Sent(i) /\ call[i].op \in {"createMemorySource", "editCreature"})
        => \A k \in {"name", "description", "content", "fileUrl", "fileName", "fileSize"} :
               SetFalsy(i, k) => AsIfNotSet(i, k)

\* C21 as amended: createMemorySource drops a content, fileUrl, fileName or
\* fileSize set to a falsy value, as if it were not set, but sends name
\* (and type) always, an empty name too; editCreature sends the params as
\* they are, so an empty name is in its body.
C21_FalsyFieldsDroppedButName ==
    \A i \in Slots :
        /\ (Sent(i) /\ call[i].op = "createMemorySource")
           => /\ \A k \in {"content", "fileUrl", "fileName", "fileSize"} :
                     SetFalsy(i, k) => (AsIfNotSet(i, k) /\ k \notin FormFields(i))
              /\ wire[i].body.form[1] = <<"name", ToStr(Get(call[i].params, "name"))>>
              /\ SetFalsy(i, "name") => ~AsIfNotSet(i, "name")
        /\ (Sent(i) /\ call[i].op = "editCreature")
           => /\ wire[i].body.text = Stringify(call[i].params)
              /\ SetFalsy(i, "name")
                 => (/\ Contains(wire[i].body.text, "\"name\":\"\"")
                     /\ ~AsIfNotSet(i, "name"))

\* createMemorySource is in flight for a DOCUMENT source with an empty
\* name and a zero fileSize: the name is sent, empty, and the size is not.
C21_Witness ==
    \E i \in Slots :
        /\ Sent(i)
        /\ call[i].op = "createMemorySource"
        /\ Get(call[i].params, "type") = Str("DOCUMENT")
        /\ Get(call[i].params, "name") = Str("")
        /\ Get(call[i].params, "fileSize") = Num(0)
        /\ wire[i].body.form[1] = <<"name", "">>
        /\ "fileSize" \notin FormFields(i)

\* Inputs with missing or empty fields: a STATIC_TEXT memory source without
\* content (and without a name), a DOCUMENT without any file field, a chat
\* with an empty message, an edit that changes nothing, a sign-up and a
\* sign-in with nothing but the email.
IncompleteInputs ==
    { <<"createMemorySource",
        Obj(<< <<"name", Str("")>>, <<"type", Str("STATIC_TEXT")>> >>)>>,
      <<"createMemorySource",
        Obj(<< <<"name", Str("Notes")>>, <<"type", Str("DOCUMENT")>> >>)>>,
      <<"chat", Str("")>>,
      <<"editCreature", Obj(<<>>)>>,
      <<"signUp", Obj(<< <<"email", Email>> >>)>>,
      <<"signIn", Obj(<< <<"email", Email>> >>)>> }

\* The client can be called with the input, and the call sends a request.
Issues(input) ==
    ENABLED (/\ Next
             /\ \E i \in Slots :
                   /\ call[i].pc = "idle"
                   /\ call'[i].pc = "awaiting"
                   /\ call'[i].op = input[1]
                   /\ call'[i].params = input[2]
                   /\ call'[i].fetches = 1
                   /\ wire'[i].method = TableMethod(input[1]))

\* C22: the client validates nothing.  Whatever else is in flight, the
\* client issues the request of every call with an incomplete input; every
\* call that awaits fetch has a request on the wire; and an operation fails
\* only after its fetch has settled, so the only failures are those made of
\* what the transport gave.
C22_NoInputValidation ==
    /\ CanBeCalled => \A input \in IncompleteInputs : Issues(input)
    /\ \A i \in Slots :
           (Sent(i) /\ call[i].op \in AllOps)
           => (wire[i] # NoRequest /\ call[i].fetches = 1)
    /\ (result.op \in AllOps /\ Failed)
       => (result.settled # NoSettlement /\ result.fetches = 1)

\* createMemorySource is in flight for a STATIC_TEXT source that has an
\* empty name and no content: the request went out with name and type.
C22_Witness ==
    \E i \in Slots :
        /\ Sent(i)
        /\ call[i].op = "createMemorySource"
        /\ call[i].params = Obj(<< <<"name", Str("")>>, <<"type", Str("STATIC_TEXT")>> >>)
        /\ wire[i].method = "POST"
        /\ wire[i].body.form = << <<"name", "">>, <<"type", "STATIC_TEXT">> >>

\* The message of the Error each method of the class throws in place of a
\* thrown value that is no Error.
UnexpectedMessage ==
    [op \in ClassOps |->
       CASE op = "signUp" -> "An unexpected error occurred during sign up"
         [] op = "signIn" -> "An unexpected error occurred during sign in"
         [] op = "getCreatures" -> "An unexpected error occurred while fetching creatures"
         [] op = "createCreature" -> "An unexpected error occurred while creating creature"
         [] op = "editCreature" -> "An unexpected error occurred while updating creature"
         [] op = "deleteCreature" -> "An unexpected error occurred while deleting creature"
         [] op = "createMemorySource" ->
                "An unexpected error occurred while creating memory source"
         [] op = "chat" -> "An unexpected error occurred while sending chat message"]

\* C23: whenever a method of the class fails, what it throws is an Error
\* (an Error, a TypeError or a SyntaxError).  An Error thrown on the way is
\* the one that comes out: the Error of a rejected fetch, the Error of a
\* body that fails to arrive, and the SyntaxError of a body that does not
\* parse where no inner catch handles it.  A thrown value that is no Error,
\* from fetch or from the read of the body, is replaced by an Error with
\* the method's own "An unexpected error occurred ..." message, which is
\* used for nothing else.
C23_EveryRejectionIsAnError ==
    (result.op \in ClassOps /\ Failed)
    => /\ result.outcome.name \in {"Error", "TypeError", "SyntaxError"}
       /\ result.settled.kind \in {"rejectError", "bodyError"}
          => result.outcome = Rejection(result.settled)
       /\ result.settled.kind \in {"rejectOther", "bodyOther"}
          <=> result.outcome = Threw("Error", UnexpectedMessage[result.op])
       /\ (result.op = "getCreatures" /\ HttpSuccess /\ ~BodyIsJson)
          => /\ result.outcome.name = "SyntaxError"
             /\ result.outcome.message \in SyntaxErrorMessages(result.settled.text)

\* The read of the body of a chat response has failed with a value that is
\* no Error and chat has failed with the Error of its own text.
C23_Witness ==
    /\ result.op = "chat"
    /\ result.settled.kind = "bodyOther"
    /\ Failed
    /\ result.outcome =
         Threw("Error", "An unexpected error occurred while sending chat message")

\* The operations the copies of the class are claimed to agree on.
SharedOps == ClassOps \ {"signIn"}

\* C24: whenever getCreatures, createCreature, editCreature,
\* deleteCreature, createMemorySource, chat or signUp is called on a
\* client, the request its copy of the method has sent is the request the
\* method of each of the three copies builds from the same configuration
\* and arguments, and once it has ended, it has ended as the method of
\* each of the three copies ends given the same answer: with the same
\* value returned or the same error thrown, after one request.
C24_CopiesAgreeButSignIn ==
    /\ \A i \in Slots :
           (Sent(i) /\ call[i].op \in SharedOps)
           => \A cp \in Copies :
                  wire[i] = RequestOf(cp, call[i].op, config,
                                      call[i].token, call[i].id, call[i].params)
    /\ result.op \in SharedOps
       => /\ result.fetches = 1
          /\ \E sm \in EngineMessages(result.settled.text) :
                 \A cp \in Copies :
                     result.outcome = OutcomeOf(cp, result.op, result.settled, sm)

\* signUp was called on a client of the credential-callback variant, was
\* answered 500 with an error page, and has failed with the message it
\* fails with in src/index.ts.
C24_Witness ==
    /\ copy = "callback"
    /\ result.op = "signUp"
    /\ result.settled.status = 500
    /\ result.settled.text = ErrorPage
    /\ Failed
    /\ \E sm \in EngineMessages(ErrorPage) :
           result.outcome = OutcomeOf("source", "signUp", result.settled, sm)
    /\ result.outcome.message = "Server returned 500: " \o ErrorPage

\* C25: whenever signIn is answered 2xx with a body that is valid JSON and
\* has no user object, signIn fails, in every copy, and its message does
\* not call the response invalid JSON.
C25_NoSignInResultWithoutUser ==
    (/\ HttpSuccess
     /\ result.op = "signIn"
     /\ BodyIsJson
     /\ Get(Body, "user").t # "object")
    => (/\ Failed
        /\ ~StartsWith(result.outcome.message, "Invalid JSON response"))

\* The settlement r with the token t in place of the server's token in the
\* body of the response.
WithToken(r, t) == [r EXCEPT !.text = Replace(@, ServerToken, t)]

\* Other values of the secrets: of the configured apiKey, of the per-call
\* credential and of the token in a response.
OtherApiKeys == {Undefined, Str("sk-config"), Str("sk-other")}
OtherTokens == {"srv-token", "srv-other"}

\* C26: what the client has written to the console is what it writes in
\* the run that differs only in a secret: the constructor writes the same
\* for every configured apiKey; a call in flight has written the same as
\* the call with any other per-call credential; and a call that has ended
\* on a response has written the same as when the token in the body of the
\* response is another one.
C26_LogIndependentOfSecrets ==
    /\ \A k \in OtherApiKeys :
           initLog = ConstructLog(Construct([given EXCEPT !.apiKey = k]))
    /\ \A i \in Slots :
           (Sent(i) /\ call[i].op \in ClassOps)
           => \A t \in Tokens :
                  call[i].log
                    = Invoked(copy, call[i].op, <<t, call[i].id, call[i].params>>).log
    /\ (result.op \in ClassOps /\ Logs(copy, result.op) /\ Answered)
       => \A t \in OtherTokens :
              result.log = SubSeq(result.log, 1, 1)
                           \o LogResponse(WithToken(result.settled, t))
    /\ (result.op \in ClassOps /\ ~Logs(copy, result.op)) => result.log = <<>>

=============================================================================
